---- MODULE Spec2Model ----
(***************************************************************************)
(* python-bchlib: the BCH codec object of the Python binding               *)
(* (src/unnamed/part_000, with the earlier revisions src/src/bchlib.c and  *)
(* src/bchlib/bchlib.c) together with the codec core it calls (bch.c,      *)
(* which is described by spec.md sections 3-4).                            *)
(***************************************************************************)
EXTENDS Integers, Sequences, FiniteSets, TLC

(***************************************************************************)
(* Bounds of the model.                                                    *)
(***************************************************************************)
\* longest message, in bytes, a client encodes
MaxDataLen == 2
\* number of byte patterns the client's messages are filled with
NumPatterns == 2

(***************************************************************************)
(* Program constants.                                                      *)
(***************************************************************************)
EINVAL == 22
EBADMSG == 74
\* smallest field order the core accepts
min_m == 5
\* largest field order with a built-in default polynomial
max_m == 15

\* the null pointer (a record, so that it compares with the structures)
NULL == [null |-> TRUE]

(***************************************************************************)
(* Bit arithmetic on naturals (C unsigned arithmetic).                     *)
(***************************************************************************)
Bit(x, k) == (x \div (2 ^ k)) % 2

\* the 16-bit word whose bit k is B(k)
Word16(B(_)) ==
    (((B(0) + 2 * B(1)) + (4 * B(2) + 8 * B(3)))
       + ((16 * B(4) + 32 * B(5)) + (64 * B(6) + 128 * B(7))))
  + (((256 * B(8) + 512 * B(9)) + (1024 * B(10) + 2048 * B(11)))
       + ((4096 * B(12) + 8192 * B(13)) + (16384 * B(14) + 32768 * B(15))))

XOR16(a, b) == Word16(LAMBDA k : (Bit(a, k) + Bit(b, k)) % 2)
AND16(a, b) == Word16(LAMBDA k : Bit(a, k) * Bit(b, k))

\* a ^ b and a & b, the low and the high half-word apart
XOR(a, b) ==
    IF a < 65536 /\ b < 65536 THEN XOR16(a, b)
    ELSE XOR16(a % 65536, b % 65536)
           + 65536 * XOR16(a \div 65536, b \div 65536)

AND(a, b) ==
    IF a < 65536 /\ b < 65536 THEN AND16(a, b)
    ELSE AND16(a % 65536, b % 65536)
           + 65536 * AND16(a \div 65536, b \div 65536)

\* a sequence given by a rule, entry by entry (a C array of N elements)
Array(f, N) == SubSeq(f, 1, N)

\* a finite set of integers as an ascending sequence
AscendingSeq(S) ==
    Array([i \in 1..Cardinality(S) |->
              CHOOSE x \in S : Cardinality({ y \in S : y < x }) = i - 1],
          Cardinality(S))

\* the degree of a GF(2) polynomial held in an integer: while (tmp >>= 1) m++
RECURSIVE deg(_)
deg(poly) == IF poly \div 2 = 0 THEN 0 ELSE 1 + deg(poly \div 2)

\* reversal of the bit order of one byte (bit i moves to bit 7-i)
BitRev8(b) ==
    Bit(b, 0) * 128 + Bit(b, 1) * 64 + Bit(b, 2) * 32 + Bit(b, 3) * 16
  + Bit(b, 4) * 8 + Bit(b, 5) * 4 + Bit(b, 6) * 2 + Bit(b, 7)

\* swap_bits(bch, in): the core's bit-order adapter
swap_bits(bch, in) == IF bch.swap_bits THEN BitRev8(in) ELSE in

(***************************************************************************)
(* 4.1 Galois field GF(2^m): log / antilog tables.                         *)
(***************************************************************************)
\* default primitive polynomials for m = 5..15
prim_poly_tab ==
    <<37, 67, 131, 285, 529, 1033, 2053, 4179, 8219, 16427, 32771>>

\* x times alpha in the field of 2^m elements: the shift, reduced by poly
MulAlpha(x, m, poly) ==
    IF 2 * x >= 2 ^ m THEN XOR(2 * x, poly) ELSE 2 * x

\* one more power: st holds the st.i powers so far and the next one
PowStep(st, m, poly, n) ==
    IF st.i >= n THEN st
    ELSE [acc |-> Append(st.acc, st.x),
          x   |-> MulAlpha(st.x, m, poly),
          i   |-> st.i + 1]

\* the powers alpha^0 .. alpha^(n-1): the run goes on until there are n,
\* the first half of what is missing before the second
RECURSIVE PowRun(_, _, _, _)
PowRun(st, m, poly, n) ==
    IF st.i >= n - 1 THEN PowStep(st, m, poly, n)
    ELSE PowRun(PowRun(st, m, poly, st.i + (n - st.i) \div 2), m, poly, n)

PowSeq(m, poly, n) ==
    PowRun([acc |-> <<>>, x |-> 1, i |-> 0], m, poly, n).acc

\* the pairs <<alpha^i, i>> in the order of their first entry: the i-th is
\* that of the field element i
LogPairs(n, pw) ==
    SortSeq([i \in 1..n |-> <<pw[i], i - 1>>], LAMBDA a, b : a[1] < b[1])

\* build_gf_tables: a_pow_tab[i] = alpha^i for i = 0..n and a_log_tab[x] for
\* x = 0..n, each held as a sequence (C element k is entry k+1); NULL when
\* the polynomial has not degree m or is not primitive (alpha^i = 1 for
\* some 0 < i < n)
gf_tables(n, pw) ==
    IF \E i \in 2..n : pw[i] = 1 THEN NULL
    ELSE LET logs == LogPairs(n, pw)
         IN  [a_pow_tab |-> Append(pw, 1),
              a_log_tab |-> Array([y \in 1..(n + 1) |->
                                      IF y = 1 THEN 0 ELSE logs[y - 1][2]],
                                  n + 1)]

build_gf_tables(m, poly) ==
    IF deg(poly) # m THEN NULL
    ELSE gf_tables(2 ^ m - 1, PowSeq(m, poly, 2 ^ m - 1))

GF_N(bch) == bch.n
GF_T(bch) == bch.t
GF_M(bch) == bch.m

InField(bch, x) == x \in 0..GF_N(bch)

mod_s(bch, v) == IF v < GF_N(bch) THEN v ELSE v - GF_N(bch)
a_pow(bch, i) == bch.a_pow_tab[(i % GF_N(bch)) + 1]
a_log(bch, x) == bch.a_log_tab[x + 1]

gf_mul(bch, a, b) ==
    IF a # 0 /\ b # 0
    THEN a_pow(bch, mod_s(bch, a_log(bch, a) + a_log(bch, b)))
    ELSE 0

\* S^2 = antilog[(2 * log[S]) mod n]
gf_sqr(bch, a) ==
    IF a # 0 THEN a_pow(bch, mod_s(bch, 2 * a_log(bch, a))) ELSE 0

(***************************************************************************)
(* 4.2 Generator polynomial.                                               *)
(***************************************************************************)
\* exponents of the roots of g: the conjugates of alpha^1, alpha^3, ...
GenRoots(m, t) ==
    LET n == 2 ^ m - 1
    IN  { ((2 * i + 1) * (2 ^ j)) % n : i \in 0..(t - 1), j \in 0..(m - 1) }

\* g(X) times (X + alpha^r); the coefficient of X^k is entry k+1
GenStep(bch, g, r) ==
    Array([k \in 1..(Len(g) + 1) |->
              XOR(IF k > 1 THEN g[k - 1] ELSE 0,
                  IF k <= Len(g) THEN gf_mul(bch, g[k], a_pow(bch, r))
                  ELSE 0)],
          Len(g) + 1)

\* one more root: st.g is the product over the first st.i roots
GenNext(bch, st, roots, hi) ==
    IF st.i >= hi THEN st
    ELSE [g |-> GenStep(bch, st.g, roots[st.i + 1]), i |-> st.i + 1]

\* g(X) = product of (X + alpha^r) over the roots, taken in ascending order:
\* the run goes on until it has hi of them, the first half of what is
\* missing before the second
RECURSIVE GenProd(_, _, _, _)
GenProd(bch, st, roots, hi) ==
    IF st.i >= hi - 1 THEN GenNext(bch, st, roots, hi)
    ELSE GenProd(bch, GenProd(bch, st, roots, st.i + (hi - st.i) \div 2),
                 roots, hi)

\* the generator as a GF(2) polynomial: the sequence of its coefficients,
\* that of X^k entry k+1
compute_generator_polynomial(bch) ==
    LET roots == AscendingSeq(GenRoots(bch.m, bch.t))
    IN  GenProd(bch, [g |-> <<1>>, i |-> 0], roots, Len(roots)).g

(***************************************************************************)
(* Buffers handed to a call: a Py_buffer view, or a pointer that may be    *)
(* null.                                                                   *)
(***************************************************************************)
\* Py_buffer x = {0}: nothing supplied, x.buf is the null pointer
NoBuffer == [isnull |-> TRUE, buf |-> <<>>, len |-> 0, readonly |-> FALSE]
\* the view of a supplied bytes-like object
Py_buffer(bytes, ro) ==
    [isnull |-> FALSE, buf |-> bytes, len |-> Len(bytes), readonly |-> ro]

(***************************************************************************)
(* 4.3 Encoder: division of message(X) * X^ecc_bits by g(X).               *)
(***************************************************************************)
\* width in bits of the parity register that holds ecc_bytes bytes
EccWidth(bch) == 8 * bch.ecc_bytes
\* unused low bits of the last ecc byte
EccPad(bch) == EccWidth(bch) - bch.ecc_bits

\* the parity register: ecc_bytes bytes, the first the most significant
\* load_ecc8: ecc bytes to parity register (the last byte of src is the
\* least significant)
load_ecc8(bch, src) ==
    Array([i \in 1..bch.ecc_bytes |->
              IF Len(src) - bch.ecc_bytes + i >= 1
              THEN swap_bits(bch, src[Len(src) - bch.ecc_bytes + i])
              ELSE 0],
          bch.ecc_bytes)

\* store_ecc8: parity register to ecc bytes
store_ecc8(bch, r) ==
    Array([i \in 1..bch.ecc_bytes |-> swap_bits(bch, r[i])], bch.ecc_bytes)

\* two registers added, byte by byte
XorBytes(a, b) == Array([i \in 1..Len(a) |-> XOR(a[i], b[i])], Len(a))

\* p(X) * X^ecc_bits mod g(X) for the byte p, one bit of p at a time from
\* the most significant: R is the remainder so far, the coefficient of X^k
\* its entry k+1, and g the coefficients of the generator
RECURSIVE PolyMod(_, _, _, _)
PolyMod(R, g, p, k) ==
    IF k < 0 THEN R
    ELSE LET fb == (Bit(p, k) + R[Len(R)]) % 2
         IN  PolyMod(Array([c \in 1..Len(R) |->
                              ((IF c > 1 THEN R[c - 1] ELSE 0) + fb * g[c])
                                 % 2],
                           Len(R)),
                     g, p, k - 1)

\* the remainder R in the parity register, aligned to its top: bit j of
\* byte i is bit 8 * (ecc_bytes - i) + j of the register, which holds the
\* coefficient of X^(that - pad)
PackRegister(bch, R) ==
    Array([i \in 1..bch.ecc_bytes |->
              LET at(j) == 8 * (bch.ecc_bytes - i) + j - EccPad(bch)
                  b(j)  == IF at(j) >= 0 THEN R[at(j) + 1] * 2 ^ j ELSE 0
              IN  b(0) + b(1) + b(2) + b(3) + b(4) + b(5) + b(6) + b(7)],
          bch.ecc_bytes)

\* build_mod8_tables: the remainder of each byte value times X^ecc_bits
\* (p(X) * X^ecc_bits mod g(X)), aligned to the top of the parity register
build_mod8_tables(bch) ==
    Array([v \in 1..256 |->
              PackRegister(bch,
                  PolyMod(Array([c \in 1..bch.ecc_bits |-> 0], bch.ecc_bits),
                          bch.genpoly, v - 1, 7))],
          256)

\* one byte of the message, table driven:
\*   p = mod8_tab[(ecc >> (W-8)) ^ byte];  ecc = (ecc << 8) ^ p
EncStep(bch, r, byte) ==
    LET p == bch.mod8_tab[XOR(r[1], byte) + 1]
    IN  Array([i \in 1..Len(r) |->
                  XOR(IF i < Len(r) THEN r[i + 1] ELSE 0, p[i])],
              Len(r))

\* one more byte of the message: st.r is the register after st.i of them
EncNextByte(bch, st, data, hi) ==
    IF st.i >= hi THEN st
    ELSE [r |-> EncStep(bch, st.r, swap_bits(bch, data[st.i + 1])),
          i |-> st.i + 1]

\* the first hi bytes of the message taken into the register, the first
\* half of what is missing before the second
RECURSIVE EncBytes(_, _, _, _)
EncBytes(bch, st, data, hi) ==
    IF st.i >= hi - 1 THEN EncNextByte(bch, st, data, hi)
    ELSE EncBytes(bch, EncBytes(bch, st, data, st.i + (hi - st.i) \div 2),
                  data, hi)

\* bch_encode(bch, data, len, ecc): the new content of the first ecc_bytes
\* bytes of the ecc buffer; the starting parity is read from them
bch_encode(bch, data, ecc) ==
    store_ecc8(bch,
               EncBytes(bch,
                        [r |-> load_ecc8(bch, SubSeq(ecc, 1, bch.ecc_bytes)),
                         i |-> 0],
                        data, Len(data)).r)

ZeroBytes(k) == Array([i \in 1..k |-> 0], k)

(***************************************************************************)
(* Configure: bch_init(m, t, prim_poly, swap_bits).                        *)
(***************************************************************************)
\* the control structure once the generator g is known
with_genpoly(b0, g) ==
    [m |-> b0.m, n |-> b0.n, t |-> b0.t,
     prim_poly |-> b0.prim_poly,
     swap_bits |-> b0.swap_bits,
     ecc_bits |-> Len(g) - 1,
     ecc_bytes |-> (Len(g) + 6) \div 8,
     genpoly |-> g,
     a_pow_tab |-> b0.a_pow_tab,
     a_log_tab |-> b0.a_log_tab]

\* ... and once the encoder's table is built
with_mod8_tab(b1) ==
    [m |-> b1.m, n |-> b1.n, t |-> b1.t,
     prim_poly |-> b1.prim_poly,
     swap_bits |-> b1.swap_bits,
     ecc_bits |-> b1.ecc_bits,
     ecc_bytes |-> b1.ecc_bytes,
     genpoly |-> b1.genpoly,
     a_pow_tab |-> b1.a_pow_tab,
     a_log_tab |-> b1.a_log_tab,
     mod8_tab |-> build_mod8_tables(b1)]

with_generator(b0) ==
    with_mod8_tab(with_genpoly(b0, compute_generator_polynomial(b0)))

\* the field is built; NULL when the polynomial is not primitive
with_gf_tables(m, t, ppoly, swap, tabs) ==
    IF tabs = NULL THEN NULL
    ELSE with_generator([m |-> m, n |-> 2 ^ m - 1, t |-> t,
                         prim_poly |-> ppoly, swap_bits |-> swap,
                         a_pow_tab |-> tabs.a_pow_tab,
                         a_log_tab |-> tabs.a_log_tab])

\* a polynomial of 0 selects the default one for m
with_prim_poly(m, t, ppoly, swap) ==
    with_gf_tables(m, t, ppoly, swap, build_gf_tables(m, ppoly))

bch_init(m, t, prim_poly, swap) ==
    IF m < min_m \/ m > max_m THEN NULL
    ELSE IF t < 1 \/ m * t >= 2 ^ m - 1 THEN NULL
    ELSE with_prim_poly(m, t,
                        IF prim_poly = 0 THEN prim_poly_tab[m - min_m + 1]
                        ELSE prim_poly,
                        swap)

(***************************************************************************)
(* 4.4 Syndromes.  A syndrome set is a sequence of 2t values; entry i is   *)
(* S_i (the C array element syn[i-1]).                                     *)
(***************************************************************************)
\* XOR of f[x] over the finite set of integers S (the values are field
\* elements, below 2^16): bit k of it is the parity of the number of values
\* with bit k set
XorSum(f, S) ==
    LET xs == AscendingSeq(S)
        vs == Array([i \in 1..Len(xs) |-> f[xs[i]]], Len(xs))
    IN  Word16(LAMBDA k :
                  Cardinality({ i \in 1..Len(vs) : Bit(vs[i], k) = 1 }) % 2)

\* bch_compute_even_syndromes: for (j = 0; j < t; j++)
\*     syn[2*j+1] = gf_sqr(bch, syn[j]);   i.e.  S_(2j+2) = S_(j+1)^2
RECURSIVE EvenSynLoop(_, _, _)
EvenSynLoop(bch, syn, j) ==
    IF j >= GF_T(bch) THEN syn
    ELSE EvenSynLoop(bch,
                     [syn EXCEPT ![2 * j + 2] = gf_sqr(bch, syn[j + 1])],
                     j + 1)

bch_compute_even_syndromes(bch, syn) == EvenSynLoop(bch, syn, 0)

\* compute_syndromes: S_i = word(alpha^i) for odd i, evaluated on the
\* remainder held in the parity register (pad bits cleared), then the even
\* ones by squaring
compute_syndromes(bch, r) ==
    LET E(i) == Bit(r[bch.ecc_bytes - (i + EccPad(bch)) \div 8],
                    (i + EccPad(bch)) % 8)
        bits == { i \in 0..(bch.ecc_bits - 1) : E(i) = 1 }
        odd  == Array([j \in 1..(2 * GF_T(bch)) |->
                          IF j % 2 = 1
                          THEN XorSum([i \in bits |-> a_pow(bch, j * i)], bits)
                          ELSE 0],
                      2 * GF_T(bch))
    IN  bch_compute_even_syndromes(bch, odd)

(***************************************************************************)
(* 4.5 Error-locator polynomial: binary Berlekamp-Massey.  A polynomial is *)
(* its degree and its coefficients c[0..2t], held as a sequence (c[j] is    *)
(* entry j+1).                                                             *)
(***************************************************************************)
\* the state of the iteration: step i, locator elp of degree deg, the locator
\* pelp (degree pdeg) kept from step pp with its discrepancy pd, and the
\* current discrepancy d

\* elp(X) + (d / pd) * X^(2i - pp) * pelp(X)
bm_elp(bch, st) ==
    LET k   == 2 * st.i - st.pp
        tmp == a_log(bch, st.d) + GF_N(bch) - a_log(bch, st.pd)
    IN  Array([c \in 1..(2 * GF_T(bch) + 1) |->
                  IF c - 1 >= k /\ c - 1 - k <= st.pdeg
                     /\ st.pelp[c - k] # 0
                  THEN XOR(st.elp[c],
                           a_pow(bch, tmp + a_log(bch, st.pelp[c - k])))
                  ELSE st.elp[c]],
              2 * GF_T(bch) + 1)

\* the locator after step i
bm_update(bch, st) ==
    IF st.d = 0 THEN st
    ELSE IF st.pdeg + 2 * st.i - st.pp > st.deg
    THEN [st EXCEPT !.elp = bm_elp(bch, st),
                    !.deg = st.pdeg + 2 * st.i - st.pp,
                    !.pelp = st.elp, !.pdeg = st.deg,
                    !.pd = st.d, !.pp = 2 * st.i]
    ELSE [st EXCEPT !.elp = bm_elp(bch, st)]

\* the discrepancy of the next step: S_(2i+3) + sum elp[j] * S_(2i+3-j)
bm_discrepancy(bch, syn, st) ==
    IF st.i < GF_T(bch) - 1
    THEN [st EXCEPT
            !.i = st.i + 1,
            !.d = XOR(syn[2 * st.i + 3],
                      XorSum([j \in 1..st.deg |->
                                 gf_mul(bch, st.elp[j + 1],
                                        syn[2 * st.i + 3 - j])],
                             1..st.deg))]
    ELSE [st EXCEPT !.i = st.i + 1]

RECURSIVE BMLoop(_, _, _)
BMLoop(bch, syn, st) ==
    IF ~(st.i < GF_T(bch) /\ st.deg <= GF_T(bch)) THEN st
    ELSE BMLoop(bch, syn, bm_discrepancy(bch, syn, bm_update(bch, st)))

\* the polynomial 1
OnePoly(bch) ==
    Array([c \in 1..(2 * GF_T(bch) + 1) |-> IF c = 1 THEN 1 ELSE 0],
          2 * GF_T(bch) + 1)

elp_result(bch, st) ==
    [elp |-> st.elp, deg |-> st.deg,
     err |-> IF st.deg > GF_T(bch) THEN -1 ELSE st.deg]

\* the locator and its degree L; err = -1 when L > t
compute_error_locator_polynomial(bch, syn) ==
    elp_result(bch,
               BMLoop(bch, syn,
                      [i |-> 0, elp |-> OnePoly(bch), deg |-> 0,
                       pelp |-> OnePoly(bch), pdeg |-> 0, pd |-> 1,
                       pp |-> -1, d |-> syn[1]]))

(***************************************************************************)
(* 4.6 Root finder (Chien search): the i in 0..n-1 with sigma(alpha^-i) = 0*)
(***************************************************************************)
gf_poly_eval(bch, elp, dg, e) ==
    XorSum([j \in 0..dg |->
               IF elp[j + 1] = 0 THEN 0
               ELSE a_pow(bch, a_log(bch, elp[j + 1]) + j * e)],
           0..dg)

find_poly_roots(bch, elp, dg) ==
    { i \in 0..(GF_N(bch) - 1) :
         gf_poly_eval(bch, elp, dg, GF_N(bch) - i) = 0 }

\* positions 1..Len(src) of dst overwritten by src
Overlay(dst, src) ==
    Array([i \in 1..Len(dst) |-> IF i <= Len(src) THEN src[i] ELSE dst[i]],
          Len(dst))

(***************************************************************************)
(* Decode: bch_decode(bch, data, len, recv_ecc, calc_ecc, syn, errloc).    *)
(* cursyn is bch->syn and synGiven says whether the caller passes it as    *)
(* syn; the result holds the return value and the new bch->syn and errloc. *)
(***************************************************************************)
\* raw root (power of X in the codeword polynomial) to bit index in the
\* data-then-ecc byte block
LocOfRoot(bch, nbits, raw) ==
    LET e == nbits - 1 - raw
    IN  IF bch.swap_bits THEN e ELSE (e - (e % 8)) + (7 - (e % 8))

\* the roots are known: the error count and the locations
decode_roots(bch, syn, len, errloc, loc, roots) ==
    IF loc.err > 0
       /\ (Len(roots) # loc.err
           \/ \E i \in 1..Len(roots) : roots[i] >= len * 8 + bch.ecc_bits)
    THEN [err |-> -EBADMSG, syn |-> syn, errloc |-> errloc]
    ELSE IF loc.err < 0
    THEN [err |-> -EBADMSG, syn |-> syn, errloc |-> errloc]
    ELSE [err |-> loc.err, syn |-> syn,
          \* 4.6: positions are returned in ascending bit-index order
          errloc |-> Overlay(errloc,
                             AscendingSeq({ LocOfRoot(bch,
                                                len * 8 + bch.ecc_bits,
                                                roots[i]) :
                                              i \in 1..Len(roots) }))]

\* the locator is known: find its roots when there are errors
decode_elp(bch, syn, len, errloc, loc) ==
    decode_roots(bch, syn, len, errloc, loc,
                 IF loc.err > 0
                 THEN AscendingSeq(find_poly_roots(bch, loc.elp, loc.deg))
                 ELSE <<>>)

\* the syndromes are known
decode_syn(bch, syn, len, errloc) ==
    decode_elp(bch, syn, len, errloc,
               compute_error_locator_polynomial(bch, syn))

\* the parity of the data as received
decode_calc_ecc(bch, data, len, calc_ecc) ==
    IF calc_ecc.isnull
    THEN load_ecc8(bch, bch_encode(bch, SubSeq(data.buf, 1, len),
                                   ZeroBytes(bch.ecc_bytes)))
    ELSE load_ecc8(bch, calc_ecc.buf)

\* received parity XOR calculated parity
decode_remainder(bch, data, len, recv_ecc, calc_ecc) ==
    IF recv_ecc.isnull THEN decode_calc_ecc(bch, data, len, calc_ecc)
    ELSE XorBytes(decode_calc_ecc(bch, data, len, calc_ecc),
                  load_ecc8(bch, recv_ecc.buf))

bch_decode(bch, cursyn, data, len, recv_ecc, calc_ecc, synGiven, errloc) ==
    IF 8 * len > bch.n - bch.ecc_bits
    THEN [err |-> -EINVAL, syn |-> cursyn, errloc |-> errloc]
    ELSE IF ~synGiven /\ calc_ecc.isnull /\ (data.isnull \/ recv_ecc.isnull)
    THEN [err |-> -EINVAL, syn |-> cursyn, errloc |-> errloc]
    ELSE decode_syn(bch,
                    IF synGiven THEN cursyn
                    ELSE compute_syndromes(bch,
                             decode_remainder(bch, data, len, recv_ecc,
                                              calc_ecc)),
                    len, errloc)

(***************************************************************************)
(* The binding: one codec object (BCHObject) and one client that calls it.  *)
(***************************************************************************)
VARIABLES
    variant,    \* the revision of the binding the object belongs to
    self,       \* the BCHObject
    syn,        \* self->bch->syn, the syndromes kept by the core
    data,       \* the client's data buffer
    ecc,        \* the client's ecc buffer
    ret,        \* the most recent call: its arguments on entry and its outcome
    prev,       \* the call before it
    sent,       \* the word the client put on the channel
    flips,      \* the bits of that word flipped on the channel
    pc,         \* where the client stands
    clients     \* the clients that share the object, each with its buffers

vars == <<variant, self, syn, data, ecc, ret, prev, sent, flips, pc, clients>>

\* no exception pending
NoError == [type |-> "none", msg |-> ""]
ValueError(msg) == [type |-> "ValueError", msg |-> msg]
RuntimeError(msg) == [type |-> "RuntimeError", msg |-> msg]
IndexError(msg) == [type |-> "IndexError", msg |-> msg]
TypeError(msg) == [type |-> "TypeError", msg |-> msg]
\* a method returned NULL with no exception set
SystemError == [type |-> "SystemError", msg |-> "NULL result without error"]
\* the process is killed by the access
Fault == [type |-> "SIGSEGV", msg |-> ""]

Py_None == "None"
\* a value nothing is known about (read through a wild pointer)
Indeterminate == "indeterminate"

\* a call that returned the object val
Return(op, args, val) ==
    [op |-> op, args |-> args, exc |-> NoError, val |-> val, none |-> FALSE]
\* a call that returned None
ReturnNone(op, args) ==
    [op |-> op, args |-> args, exc |-> NoError, val |-> Py_None, none |-> TRUE]
\* a call that returned NULL with exc set: no object comes back
Raise(op, args, exc) ==
    [op |-> op, args |-> args, exc |-> exc, val |-> Py_None, none |-> TRUE]
\* self->bch->... with self->bch the null pointer: the access faults, or it
\* reads whatever lies there and the call goes on with it
Undefined(op, args) ==
    { Raise(op, args, Fault), Return(op, args, Indeterminate) }

\* the spec's error classes, as the binding raises them
InvalidParameters(r) ==
    \/ r.exc = ValueError("'m' and/or 'poly' must be provided")
    \/ r.exc = RuntimeError("unable to inititalize bch, invalid parameters?")
    \/ r.exc = ValueError("invalid parameters")
InvalidArgument(r) ==
    \/ r.exc = ValueError("ecc length must be %d bytes")
    \/ r.exc = ValueError("recv_ecc length should be %d bytes")
    \/ r.exc = ValueError("calc_ecc length should be %d bytes")
    \/ r.exc = ValueError("'syn' must have %d elements")

\* PyType_GenericNew: the object with every field zero
NewObject ==
    [bch |-> NULL, errloc |-> <<>>, nerr |-> 0, ecc |-> <<>>, msg_len |-> 0,
     reversed |-> FALSE]

\* no syn argument
NoSyn == [isnull |-> TRUE, seq |-> <<>>, notint |-> 0]
\* a sequence of integers as the syn argument
SynArg(s) == [isnull |-> FALSE, seq |-> s, notint |-> 0]
\* a sequence whose element k (counted from 1) is not an integer, so that
\* PyLong_AsLong fails on it
SynArgWith(s, k) == [isnull |-> FALSE, seq |-> s, notint |-> k]

\* the client's next position after a call
After(p, r) ==
    IF r.op = "init"
    THEN IF r.exc = NoError THEN "ready" ELSE "unconfigured"
    ELSE IF p \in {"new", "unconfigured"} THEN "misused"
    ELSE IF r.op = "encode"
    THEN IF r.exc # NoError THEN "rejected"
         ELSE IF p = "ready" THEN "encoded" ELSE "chained"
    ELSE IF r.op = "decode"
    THEN IF p = "sent" THEN "decoded" ELSE "redecoded"
    ELSE IF r.op \in {"decode_inplace", "decode_syndromes"} THEN "decoded"
    ELSE IF r.op = "correct" THEN "corrected"
    ELSE IF r.op = "compute_even_syn"
    THEN IF r.exc # NoError THEN "rejected"
         ELSE IF p = "ready" THEN "even" ELSE "even_again"
    ELSE "read"

(***************************************************************************)
(* src/unnamed/part_000, the current binding.                               *)
(***************************************************************************)
\* BCH_init(t, prim_poly, m, swap_bits); m = -1 when it is omitted
\* lines 72-89: self->bch = b, the value bch_init returned
init_bch(args, b) ==
    IF b = NULL
    THEN /\ ret' = Raise("init", args,
                RuntimeError("unable to inititalize bch, invalid parameters?"))
         /\ self' = [self EXCEPT !.bch = NULL]
         /\ UNCHANGED syn
    ELSE /\ ret' = Return("init", args, 0)
         /\ self' = [self EXCEPT !.bch = b, !.errloc = ZeroBytes(b.t)]
         /\ syn' = ZeroBytes(2 * b.t)

\* the constructor without its test of the arguments
missing_m_and_poly_unchecked(prim_poly, m) == FALSE

\* line 58
missing_m_and_poly(prim_poly, m) == m = -1 /\ prim_poly = 0

BCH_init(t, prim_poly, m, swap) ==
    /\ IF missing_m_and_poly(prim_poly, m)
       THEN /\ ret' = Raise("init", <<t, prim_poly, m, swap>>,
                            ValueError("'m' and/or 'poly' must be provided"))
            /\ UNCHANGED <<self, syn>>
       ELSE init_bch(<<t, prim_poly, m, swap>>,
                     bch_init(IF m = -1 THEN deg(prim_poly) ELSE m,
                              t, prim_poly, swap))
    /\ pc' = After(pc, ret')
    /\ prev' = ret
    /\ UNCHANGED <<variant, data, ecc, sent, flips>>

\* lines 114-118: bch_encode has left out in ecc.buf, which is the caller's
\* buffer when one was supplied
encode_bytes(d, e, out) ==
    /\ ret' = Return("encode", [data |-> d, ecc |-> e], out)
    /\ data' = d
    /\ ecc' = IF e.isnull THEN e ELSE [e EXCEPT !.buf = Overlay(e.buf, out)]

\* the length test written with < for !=
ecc_length_short(obj, e) == ~e.isnull /\ e.len < obj.bch.ecc_bytes

\* line 108: a supplied ecc of the wrong length
ecc_length_mismatch(obj, e) == ~e.isnull /\ e.len # obj.bch.ecc_bytes

\* the buffer cleared whether or not an ecc was supplied
encode_start_zeroed(obj, e) == ZeroBytes(obj.bch.ecc_bytes)

\* lines 104-107: the parity the encoder starts from
encode_start(obj, e) ==
    IF e.isnull THEN ZeroBytes(obj.bch.ecc_bytes) ELSE e.buf

\* BCH_encode(data, ecc = None): d and e are the views of the arguments
BCH_encode(d, e) ==
    /\ IF self.bch = NULL
       THEN /\ ret' \in Undefined("encode", [data |-> d, ecc |-> e])
            /\ data' = d
            /\ ecc' = e
       ELSE IF ecc_length_mismatch(self, e)
       THEN /\ ret' = Raise("encode", [data |-> d, ecc |-> e],
                            ValueError("ecc length must be %d bytes"))
            /\ data' = d
            /\ ecc' = e
       ELSE encode_bytes(d, e,
                bch_encode(self.bch, d.buf, encode_start(self, e)))
    /\ pc' = After(pc, ret')
    /\ prev' = ret
    /\ UNCHANGED <<variant, self, syn, sent, flips>>

\* the length test written with < for !=
syn_length_short(obj, s) == Len(s) < 2 * obj.bch.t

\* line 156: a syn sequence that does not have 2t elements
syn_length_mismatch(obj, s) == Len(s) # 2 * obj.bch.t

\* lines 163-174: the elements of syn before one that is not an integer are
\* already in bch->syn when the call returns NULL
syn_rejected(args, s) ==
    /\ ret' = Raise("decode", args, TypeError("an integer is required"))
    /\ syn' = Overlay(syn, SubSeq(s.seq, 1, s.notint - 1))

\* -EBADMSG stored as 1 for -1
decode_nerr_positive(err) == IF err = -EBADMSG THEN 1 ELSE err

\* the test of the count written with <= for <
decode_result_zero_fails(args, err) ==
    IF err = -EINVAL THEN Raise("decode", args, ValueError("invalid parameters"))
    ELSE IF err = -EBADMSG THEN Return("decode", args, -1)
    ELSE IF err <= 0 THEN Raise("decode", args, SystemError)
    ELSE Return("decode", args, err)

\* the count returned as bch_decode gave it
decode_result_raw(args, err) ==
    IF err = -EINVAL THEN Raise("decode", args, ValueError("invalid parameters"))
    ELSE Return("decode", args, err)

\* lines 182-193: the stored error count and the outcome, from what
\* bch_decode returned
decode_nerr(err) == IF err = -EBADMSG THEN -1 ELSE err

decode_result(args, err) ==
    IF err = -EINVAL THEN Raise("decode", args, ValueError("invalid parameters"))
    ELSE IF err = -EBADMSG THEN Return("decode", args, -1)
    ELSE IF err < 0 THEN Raise("decode", args, SystemError)
    ELSE Return("decode", args, err)

\* lines 179-193: res is what bch_decode returned and left in bch->syn and
\* in self->errloc
decode_store(args, res) ==
    /\ self' = [self EXCEPT !.nerr = decode_nerr(res.err),
                            !.errloc = res.errloc]
    /\ syn' = res.syn
    /\ ret' = decode_result(args, res.err)

\* lines 163-174 store each element as it comes, with no test of its value:
\* some element is not an element of the field, 0..n
syn_out_of_field(obj, s) == \E i \in 1..Len(s) : s[i] < 0 \/ s[i] > obj.bch.n

\* lines 163-180 with such a syn: the values are in self->bch->syn when
\* bch_decode is called; what bch_decode makes of them is not defined (it
\* indexes its log table with them), so the call faults or comes back with
\* any count, self->errloc as it was
decode_wild(args, s) ==
    \/ /\ ret' = Raise("decode", args, Fault)
       /\ syn' = s.seq
       /\ UNCHANGED self
    \/ \E err \in {-EBADMSG} \cup 0..self.bch.t :
          decode_store(args, [err |-> err, syn |-> s.seq,
                              errloc |-> self.errloc])

\* BCH_decode(data = None, recv_ecc = None, calc_ecc = None, syn = None)
BCH_decode(d, r, c, s) ==
    LET args == [data |-> d, ecc |-> r, calc_ecc |-> c, syn |-> s]
    IN
    /\ IF self.bch = NULL
       THEN /\ ret' \in Undefined("decode", args)
            /\ UNCHANGED <<self, syn>>
       ELSE IF ~r.isnull /\ r.len # self.bch.ecc_bytes
       THEN /\ ret' = Raise("decode", args,
                            ValueError("recv_ecc length should be %d bytes"))
            /\ UNCHANGED <<self, syn>>
       ELSE IF ~c.isnull /\ c.len # self.bch.ecc_bytes
       THEN /\ ret' = Raise("decode", args,
                            ValueError("calc_ecc length should be %d bytes"))
            /\ UNCHANGED <<self, syn>>
       ELSE IF ~s.isnull /\ syn_length_mismatch(self, s.seq)
       THEN /\ ret' = Raise("decode", args,
                            ValueError("'syn' must have %d elements"))
            /\ UNCHANGED <<self, syn>>
       ELSE IF ~s.isnull /\ s.notint > 0
       THEN /\ syn_rejected(args, s)
            /\ UNCHANGED self
       ELSE IF ~s.isnull /\ syn_out_of_field(self, s.seq)
       THEN decode_wild(args, s)
       ELSE decode_store(args,
                bch_decode(self.bch, IF s.isnull THEN syn ELSE s.seq,
                           d, d.len, r, c, ~s.isnull, self.errloc))
    /\ pc' = After(pc, ret')
    /\ prev' = ret
    /\ UNCHANGED <<variant, data, ecc, sent, flips>>

\* the bit set where the code inverts it: |= written for ^=
FlipByte_set(b, byte, bit) ==
    [b EXCEPT !.buf[byte + 1] = IF AND(@, bit) = 0 THEN @ + bit ELSE @]

\* buf[byte] ^= bit
FlipByte(b, byte, bit) == [b EXCEPT !.buf[byte + 1] = XOR(@, bit)]

\* the mask counted from the other end of the byte
correct_bit_msb(bitnum) == 2 ^ (7 - (bitnum % 8))

\* line 230: bit = 1 << (bitnum & 7)
correct_bit(bitnum) == 2 ^ (bitnum % 8)

\* lines 223-241: the correction loop from entry i on; the buffers it leaves
\* and the exception it sets
RECURSIVE correct_loop(_, _, _, _)
correct_loop(obj, d, e, i) ==
    IF i >= obj.nerr THEN [data |-> d, ecc |-> e, exc |-> NoError]
    ELSE LET bitnum == obj.errloc[i + 1]
             byte   == bitnum \div 8
             bit    == correct_bit(bitnum)
         IN  IF bitnum >= (d.len + obj.bch.ecc_bytes) * 8
             THEN [data |-> d, ecc |-> e,
                   exc |-> IndexError("uncorrectable error")]
             ELSE IF byte < d.len
             THEN IF ~d.isnull /\ ~d.readonly
                  THEN correct_loop(obj, FlipByte(d, byte, bit), e, i + 1)
                  ELSE correct_loop(obj, d, e, i + 1)
             ELSE IF ~e.isnull /\ ~e.readonly
             THEN IF byte - d.len < e.len
                  THEN correct_loop(obj, d, FlipByte(e, byte - d.len, bit),
                                    i + 1)
                  \* a write past the end of the ecc buffer
                  ELSE [data |-> d, ecc |-> e, exc |-> Fault]
             ELSE correct_loop(obj, d, e, i + 1)

\* the loop has left the buffers as in res
correct_done(args, res) ==
    /\ ret' = IF res.exc = NoError THEN ReturnNone("correct", args)
              ELSE Raise("correct", args, res.exc)
    /\ data' = res.data
    /\ ecc' = res.ecc

\* BCH_correct(data, ecc = None)
BCH_correct(d, e) ==
    LET args == [data |-> d, ecc |-> e]
    IN
    /\ IF d.readonly
       THEN /\ ret' = Raise("correct", args,
                            ValueError("data cannot be readonly"))
            /\ data' = d
            /\ ecc' = e
       ELSE IF e.readonly
       THEN /\ ret' = Raise("correct", args,
                            ValueError("ecc cannot be readonly"))
            /\ data' = d
            /\ ecc' = e
       ELSE IF self.nerr < 0
       THEN /\ ret' = ReturnNone("correct", args)
            /\ data' = d
            /\ ecc' = e
       ELSE correct_done(args, correct_loop(self, d, e, 0))
    /\ pc' = After(pc, ret')
    /\ prev' = ret
    /\ UNCHANGED <<variant, self, syn, sent, flips>>

\* the views PyArg_ParseTupleAndKeywords fills for the "y*" arguments: one
\* for each buffer the caller passes
views_acquired(bufs) == Cardinality({ i \in 1..Len(bufs) : ~bufs[i].isnull })

\* the views the call r has released when it returns. Lines 92-119 and
\* 121-194: BCH_encode and BCH_decode have no PyBuffer_Release on any path;
\* lines 196-251: BCH_correct releases both views at cleanup, which every
\* path reaches but the return NULL of line 227
views_released(r) ==
    IF r.op = "correct" /\ r.exc # IndexError("uncorrectable error")
    THEN views_acquired(<<r.args.data, r.args.ecc>>)
    ELSE 0

\* the views the call r still holds when it has returned
views_held(r) ==
    (IF r.op = "decode"
     THEN views_acquired(<<r.args.data, r.args.ecc, r.args.calc_ecc>>)
     ELSE views_acquired(<<r.args.data, r.args.ecc>>))
    - views_released(r)

\* BCH_compute_even_syn(syn): s is the sequence passed
\* the tuple built from the sequence passed in
compute_even_syn_input(obj, s) == s

\* lines 276-291: the tuple built from result_syn
compute_even_syn_tuple(obj, s) == bch_compute_even_syndromes(obj.bch, s)

BCH_compute_even_syn(s) ==
    /\ IF self.bch = NULL
       THEN ret' \in Undefined("compute_even_syn", [syn |-> s])
       ELSE IF Len(s) # 2 * self.bch.t
       THEN ret' = Raise("compute_even_syn", [syn |-> s],
                         ValueError("'syn' must have %d elements"))
       ELSE ret' = Return("compute_even_syn", [syn |-> s],
                          compute_even_syn_tuple(self, s))
    /\ pc' = After(pc, ret')
    /\ prev' = ret
    /\ UNCHANGED <<variant, self, syn, data, ecc, sent, flips>>

\* the attributes BCH_getattr serves itself
Attributes ==
    {"ecc_bits", "ecc_bytes", "errloc", "m", "n", "prim_poly", "syn", "t"}

\* BCH_getattr(name)
BCH_getattr(name) ==
    /\ IF name = "errloc"
       THEN ret' = Return("getattr", name,
                          SubSeq(self.errloc, 1,
                                 IF self.nerr <= 0 THEN 0 ELSE self.nerr))
       ELSE IF self.bch = NULL
       THEN ret' \in Undefined("getattr", name)
       ELSE ret' = Return("getattr", name,
                     CASE name = "ecc_bits"  -> self.bch.ecc_bits
                       [] name = "ecc_bytes" -> self.bch.ecc_bytes
                       [] name = "m"         -> self.bch.m
                       [] name = "n"         -> self.bch.n
                       [] name = "prim_poly" -> self.bch.prim_poly
                       [] name = "syn"       -> syn
                       [] name = "t"         -> self.bch.t)
    /\ pc' = After(pc, ret')
    /\ prev' = ret
    /\ UNCHANGED <<variant, self, syn, data, ecc, sent, flips>>

(***************************************************************************)
(* src/src/bchlib.c, the revision before it: the object also keeps the ecc  *)
(* it computed (self->ecc) and the message length (self->msg_len).          *)
(***************************************************************************)
\* malloc(k elements): nothing is known about the content
Uninitialised(k) == Array([i \in 1..k |-> Indeterminate], k)

\* lines 93-100
src_init_bch(args, b) ==
    IF b = NULL
    THEN /\ ret' = Raise("init", args,
                RuntimeError("unable to inititalize bch, invalid parameters?"))
         /\ self' = [self EXCEPT !.bch = NULL]
         /\ UNCHANGED syn
    ELSE /\ ret' = Return("init", args, 0)
         /\ self' = [self EXCEPT !.bch = b]
         /\ syn' = Uninitialised(2 * b.t)

\* BCH_init(t, poly, m, swap_bits)
src_BCH_init(t, poly, m, swap) ==
    /\ IF m = -1 /\ poly = 0
       THEN /\ ret' = Raise("init", <<t, poly, m, swap>>,
                            ValueError("'m' and/or 'poly' must be provided"))
            /\ UNCHANGED <<self, syn>>
       ELSE src_init_bch(<<t, poly, m, swap>>,
                         bch_init(IF m = -1 THEN deg(poly) ELSE m,
                                  t, poly, swap))
    /\ pc' = After(pc, ret')
    /\ prev' = ret
    /\ UNCHANGED <<variant, data, ecc, sent, flips>>

\* lines 115-120: self->ecc once it is allocated
src_ecc_alloc(obj) ==
    IF obj.ecc = <<>> THEN Uninitialised(obj.bch.ecc_bytes) ELSE obj.ecc

\* BCH_encode(data, ecc = None): the result is left in self->ecc
src_BCH_encode(d, e) ==
    /\ IF self.bch = NULL
       THEN /\ ret' \in Undefined("encode", [data |-> d, ecc |-> e])
            /\ UNCHANGED self
       ELSE IF ~e.isnull /\ e.len # self.bch.ecc_bytes
       THEN /\ ret' = Raise("encode", [data |-> d, ecc |-> e],
                            ValueError("ecc length must be %d bytes"))
            /\ self' = [self EXCEPT !.ecc = src_ecc_alloc(self)]
       ELSE /\ ret' = ReturnNone("encode", [data |-> d, ecc |-> e])
            /\ self' = [self EXCEPT !.ecc =
                          bch_encode(self.bch, d.buf,
                                     IF e.isnull
                                     THEN ZeroBytes(self.bch.ecc_bytes)
                                     ELSE e.buf)]
    /\ data' = d
    /\ ecc' = e
    /\ pc' = After(pc, ret')
    /\ prev' = ret
    /\ UNCHANGED <<variant, syn, sent, flips>>

\* lines 154-158
src_msg_len(obj, d, msg_len) ==
    IF msg_len > 0 THEN msg_len ELSE obj.msg_len + d.len

\* lines 204-209
src_errloc_alloc(obj) ==
    IF obj.errloc = <<>> THEN Uninitialised(obj.bch.t) ELSE obj.errloc

\* lines 216-224
src_decode_nerr(err) == IF err = -EBADMSG THEN -1 ELSE err

\* lines 211-227
src_decode_store(args, len, res) ==
    /\ self' = [self EXCEPT !.msg_len = len,
                            !.nerr = src_decode_nerr(res.err),
                            !.errloc = res.errloc]
    /\ syn' = res.syn
    /\ ret' = decode_result(args, res.err)

\* lines 188-214 with a syn that has an element outside the field: as in
\* part_000, what bch_decode returns is not defined
src_decode_wild(args, len, s) ==
    \/ /\ ret' = Raise("decode", args, Fault)
       /\ syn' = s.seq
       /\ self' = [self EXCEPT !.msg_len = len,
                               !.errloc = src_errloc_alloc(self)]
    \/ \E err \in {-EBADMSG} \cup 0..self.bch.t :
          src_decode_store(args, len,
                           [err |-> err, syn |-> s.seq,
                            errloc |-> src_errloc_alloc(self)])

\* BCH_decode(data, recv_ecc, calc_ecc, syn, msg_len); msg_len = 0 when it
\* is omitted
src_BCH_decode(d, r, c, s, msg_len) ==
    LET args == [data |-> d, ecc |-> r, calc_ecc |-> c, syn |-> s]
    IN
    /\ IF self.bch = NULL
       THEN /\ ret' \in Undefined("decode", args)
            /\ self' = [self EXCEPT !.msg_len = src_msg_len(self, d, msg_len)]
            /\ UNCHANGED syn
       ELSE IF ~r.isnull /\ r.len # self.bch.ecc_bytes
       THEN /\ ret' = Raise("decode", args,
                            ValueError("recv_ecc length should be %d bytes"))
            /\ self' = [self EXCEPT !.msg_len = src_msg_len(self, d, msg_len)]
            /\ UNCHANGED syn
       ELSE IF ~c.isnull /\ c.len # self.bch.ecc_bytes
       THEN /\ ret' = Raise("decode", args,
                            ValueError("calc_ecc length should be %d bytes"))
            /\ self' = [self EXCEPT !.msg_len = src_msg_len(self, d, msg_len)]
            /\ UNCHANGED syn
       ELSE IF ~s.isnull /\ Len(s.seq) # 2 * self.bch.t
       THEN /\ ret' = Raise("decode", args,
                            ValueError("'syn' must have %d elements"))
            /\ self' = [self EXCEPT !.msg_len = src_msg_len(self, d, msg_len)]
            /\ UNCHANGED syn
       ELSE IF ~s.isnull /\ s.notint > 0
       THEN /\ syn_rejected(args, s)
            /\ self' = [self EXCEPT !.msg_len = src_msg_len(self, d, msg_len)]
       ELSE IF ~s.isnull /\ syn_out_of_field(self, s.seq)
       THEN src_decode_wild(args, src_msg_len(self, d, msg_len), s)
       ELSE src_decode_store(args, src_msg_len(self, d, msg_len),
                bch_decode(self.bch, IF s.isnull THEN syn ELSE s.seq, d,
                           IF msg_len # 0 THEN msg_len ELSE d.len,
                           r, c, ~s.isnull, src_errloc_alloc(self)))
    /\ pc' = After(pc, ret')
    /\ prev' = ret
    /\ UNCHANGED <<variant, data, ecc, sent, flips>>

\* lines 257-270: the correction loop from entry i on
RECURSIVE src_correct_loop(_, _, _, _)
src_correct_loop(obj, d, e, i) ==
    IF i >= obj.nerr THEN [data |-> d, ecc |-> e, exc |-> NoError]
    ELSE LET bitnum == obj.errloc[i + 1]
             byte   == bitnum \div 8
             bit    == 2 ^ (bitnum % 8)
         IN  IF bitnum >= (obj.msg_len + obj.bch.ecc_bytes) * 8
             THEN [data |-> d, ecc |-> e,
                   exc |-> IndexError("uncorrectable error")]
             ELSE IF byte < obj.msg_len
             THEN IF byte < d.len
                  THEN src_correct_loop(obj, FlipByte(d, byte, bit), e, i + 1)
                  \* a write past the end of the data buffer
                  ELSE [data |-> d, ecc |-> e, exc |-> Fault]
             ELSE IF ~e.isnull /\ ~e.readonly
             THEN IF byte - obj.msg_len < e.len
                  THEN src_correct_loop(obj, d,
                           FlipByte(e, byte - obj.msg_len, bit), i + 1)
                  \* a write past the end of the ecc buffer
                  ELSE [data |-> d, ecc |-> e, exc |-> Fault]
             ELSE src_correct_loop(obj, d, e, i + 1)

\* BCH_correct(data, ecc = None)
src_BCH_correct(d, e) ==
    LET args == [data |-> d, ecc |-> e]
    IN
    /\ IF self.nerr < 0
       THEN /\ ret' = Raise("correct", args, SystemError)
            /\ data' = d
            /\ ecc' = e
       ELSE IF d.readonly
       THEN /\ ret' = Raise("correct", args,
                            ValueError("data cannot be readonly"))
            /\ data' = d
            /\ ecc' = e
       ELSE IF e.readonly
       THEN /\ ret' = Raise("correct", args,
                            ValueError("ecc cannot be readonly"))
            /\ data' = d
            /\ ecc' = e
       ELSE correct_done(args, src_correct_loop(self, d, e, 0))
    /\ pc' = After(pc, ret')
    /\ prev' = ret
    /\ UNCHANGED <<variant, self, syn, sent, flips>>

\* lines 307-320: the elements are stored in self->bch->syn as they are
\* read; s.notint is the first element PyLong_AsLong rejects, 0 if none
src_even_syn_staged(s) ==
    Overlay(syn, IF s.notint > 0 THEN SubSeq(s.seq, 1, s.notint - 1)
                 ELSE s.seq)

\* BCH_compute_even_syn(syn): works in self->bch->syn
src_BCH_compute_even_syn(s) ==
    /\ IF self.bch = NULL
       THEN /\ ret' \in Undefined("compute_even_syn", [syn |-> s])
            /\ UNCHANGED syn
       ELSE IF Len(s.seq) # self.bch.t * 2
       THEN /\ ret' = Raise("compute_even_syn", [syn |-> s],
                            ValueError("'syn' must have %d elements"))
            /\ UNCHANGED syn
       ELSE IF s.notint > 0
       THEN /\ ret' = Raise("compute_even_syn", [syn |-> s],
                            TypeError("an integer is required"))
            /\ syn' = src_even_syn_staged(s)
       ELSE /\ syn' = bch_compute_even_syndromes(self.bch, s.seq)
            /\ ret' = Return("compute_even_syn", [syn |-> s], syn')
    /\ pc' = After(pc, ret')
    /\ prev' = ret
    /\ UNCHANGED <<variant, self, data, ecc, sent, flips>>

\* a slot of a new tuple that PyTuple_SetItem was never called for
UnsetItem == "NULL"

\* lines 349-354: PyTuple_New(t), a tuple of size slots, of which the loop
\* sets the first nerr; the others stay UnsetItem
src_errloc_tuple(obj) ==
    [size  |-> obj.bch.t,
     items |-> SubSeq(obj.errloc, 1, IF obj.nerr <= 0 THEN 0 ELSE obj.nerr),
     rest  |-> UnsetItem]

\* BCH_getattr(name); nerr and msg_len are members read from the object
\* (lines 381-393)
src_BCH_getattr(name) ==
    /\ IF name = "nerr"
       THEN ret' = Return("getattr", name, self.nerr)
       ELSE IF name = "msg_len"
       THEN ret' = Return("getattr", name, self.msg_len)
       ELSE IF self.bch = NULL
       THEN ret' \in Undefined("getattr", name)
       ELSE ret' = Return("getattr", name,
                     CASE name = "bits"   -> self.bch.ecc_bits
                       [] name = "bytes"  -> self.bch.ecc_bytes
                       [] name = "ecc"    -> src_ecc_alloc(self)
                       [] name = "errloc" -> src_errloc_tuple(self)
                       [] name = "m"      -> self.bch.m
                       [] name = "n"      -> self.bch.n
                       [] name = "syn"    -> syn
                       [] name = "t"      -> self.bch.t)
    /\ pc' = After(pc, ret')
    /\ prev' = ret
    /\ UNCHANGED <<variant, self, syn, data, ecc, sent, flips>>

(***************************************************************************)
(* src/bchlib/bchlib.c, the oldest revision in the tree (its second,        *)
(* Python 3 module): decode corrects copies of its arguments and returns    *)
(* them; the bit order is reversed by the binding (self->reversed).         *)
(***************************************************************************)
\* 64-bit values are held as limbs of 16 bits, least significant first
RECURSIVE mul_limbs(_, _, _)
mul_limbs(x, b, carry) ==
    IF x = <<>> THEN IF carry = 0 THEN <<>> ELSE <<carry>>
    ELSE <<(Head(x) * b + carry) % (2 ^ 16)>>
         \o mul_limbs(Tail(x), b, (Head(x) * b + carry) \div (2 ^ 16))

and_limbs(x, y) ==
    Array([i \in 1..Len(y) |-> IF i <= Len(x) THEN AND(x[i], y[i]) ELSE 0],
          Len(y))

RECURSIVE mod_limbs(_, _)
mod_limbs(x, m) ==
    IF x = <<>> THEN 0
    ELSE (mod_limbs(Tail(x), m) * (2 ^ 16) + Head(x)) % m

\* the multiplier cut to 32 bits: 0x02020202
reverse_byte_narrow(b) ==
    mod_limbs(and_limbs(mul_limbs(<<514, 514>>, b, 0),
                        <<8208, 33858, 264>>),
              1023)

\* reverse_bytes, one byte:
\*   ((*src * 0x0202020202ULL) & 0x010884422010ULL) % 1023
reverse_byte(b) ==
    mod_limbs(and_limbs(mul_limbs(<<514, 514, 2>>, b, 0),
                        <<8208, 33858, 264>>),
              1023)

reverse_bytes(src) == Array([i \in 1..Len(src) |-> reverse_byte(src[i])],
                            Len(src))

\* lines 451-458
old_init_bch(args, b) ==
    IF b = NULL
    THEN /\ ret' = Raise("init", args,
                RuntimeError("unable to inititalize BCH, bad parameters?"))
         /\ self' = [self EXCEPT !.bch = NULL, !.reversed = args[3]]
         /\ UNCHANGED syn
    ELSE /\ ret' = Return("init", args, 0)
         /\ self' = [self EXCEPT !.bch = b, !.reversed = args[3]]
         /\ syn' = Uninitialised(2 * b.t)

\* BCH_init(polynomial, t, reverse)
old_BCH_init(prim_poly, t, reversed) ==
    /\ old_init_bch(<<prim_poly, t, reversed>>,
                    bch_init(deg(prim_poly), t, prim_poly, FALSE))
    /\ pc' = After(pc, ret')
    /\ prev' = ret
    /\ UNCHANGED <<variant, data, ecc, sent, flips>>

\* BCH_encode(data, ecc = None): returns a new bytearray
old_BCH_encode(d, e) ==
    /\ IF self.bch = NULL
       THEN ret' \in Undefined("encode", [data |-> d, ecc |-> e])
       ELSE IF ~e.isnull /\ e.len # self.bch.ecc_bytes
       THEN ret' = Raise("encode", [data |-> d, ecc |-> e],
                         ValueError("ecc length should be %d bytes"))
       ELSE ret' = Return("encode", [data |-> d, ecc |-> e],
                     bch_encode(self.bch,
                                IF self.reversed THEN reverse_bytes(d.buf)
                                ELSE d.buf,
                                IF e.isnull THEN ZeroBytes(self.bch.ecc_bytes)
                                ELSE e.buf))
    /\ data' = d
    /\ ecc' = e
    /\ pc' = After(pc, ret')
    /\ prev' = ret
    /\ UNCHANGED <<variant, self, syn, sent, flips>>

\* lines 550-561: the correction loop on the copies, from entry i on
RECURSIVE old_correct_loop(_, _, _, _, _, _, _)
old_correct_loop(nerr, errloc, d, e, rd, re, i) ==
    IF i >= nerr THEN [data |-> rd, ecc |-> re, exc |-> NoError]
    ELSE LET bitnum == errloc[i + 1]
             bit    == 2 ^ (bitnum % 8)
         IN  IF bitnum >= d.len * 8 + e.len * 8
             THEN [data |-> rd, ecc |-> re,
                   exc |-> IndexError("uncorrectable error")]
             ELSE IF bitnum < d.len * 8
             THEN old_correct_loop(nerr, errloc, d, e,
                      [rd EXCEPT ![bitnum \div 8 + 1] = XOR(@, bit)], re,
                      i + 1)
             ELSE old_correct_loop(nerr, errloc, d, e, rd,
                      [re EXCEPT ![bitnum \div 8 - d.len + 1] = XOR(@, bit)],
                      i + 1)

\* lines 563-573: the tuple (nerr, data, ecc) built from the copies
old_decode_tuple(args, nerr, res) ==
    IF res.exc # NoError THEN Raise("decode", args, res.exc)
    ELSE Return("decode", args,
                <<nerr,
                  IF self.reversed THEN reverse_bytes(res.data) ELSE res.data,
                  res.ecc>>)

\* lines 538-548
old_decode_nerr(err) == IF err = -EBADMSG THEN -1 ELSE err

\* lines 535-573: res is what decode_bch returned and left in errloc
old_decode_result(args, d, e, res) ==
    IF res.err = -EINVAL
    THEN Raise("decode", args, ValueError("invalid parameters"))
    ELSE IF res.err < 0 /\ res.err # -EBADMSG
    THEN Raise("decode", args, SystemError)
    ELSE old_decode_tuple(args, old_decode_nerr(res.err),
             old_correct_loop(old_decode_nerr(res.err), res.errloc, d, e,
                              IF self.reversed THEN reverse_bytes(d.buf)
                              ELSE d.buf,
                              e.buf, 0))

old_decode_store(args, d, e, res) ==
    /\ ret' = old_decode_result(args, d, e, res)
    /\ syn' = res.syn

\* BCH_decode(data, ecc): returns (nerr, corrected data, corrected ecc)
old_BCH_decode(d, e) ==
    /\ IF self.bch = NULL
       THEN /\ ret' \in Undefined("decode", [data |-> d, ecc |-> e])
            /\ UNCHANGED syn
       ELSE IF e.len # self.bch.ecc_bytes
       THEN /\ ret' = Raise("decode", [data |-> d, ecc |-> e],
                            ValueError("ecc length should be %d bytes"))
            /\ UNCHANGED syn
       ELSE old_decode_store([data |-> d, ecc |-> e], d, e,
                bch_decode(self.bch, syn, d, d.len, e, NoBuffer, FALSE,
                           Uninitialised(self.bch.t)))
    /\ data' = d
    /\ ecc' = e
    /\ pc' = After(pc, ret')
    /\ prev' = ret
    /\ UNCHANGED <<variant, self, sent, flips>>

\* lines 630-642: the correction loop of decode_inplace on the caller's
\* buffers, from entry i on; rd is the data as decode_bch saw it
RECURSIVE inplace_correct_loop(_, _, _, _, _, _, _)
inplace_correct_loop(nerr, errloc, d, e, rd, re, i) ==
    IF i >= nerr THEN [data |-> rd, ecc |-> re, exc |-> NoError]
    ELSE LET bitnum == errloc[i + 1]
             bit    == 2 ^ (bitnum % 8)
         IN  IF bitnum >= d.len * 8 + e.len * 8
             THEN [data |-> rd, ecc |-> re,
                   exc |-> IndexError("uncorrectable error")]
             ELSE IF bitnum < d.len * 8
             THEN inplace_correct_loop(nerr, errloc, d, e,
                      [rd EXCEPT ![bitnum \div 8 + 1] = XOR(@, bit)], re,
                      i + 1)
             ELSE IF ~e.readonly
             THEN inplace_correct_loop(nerr, errloc, d, e, rd,
                      [re EXCEPT ![bitnum \div 8 - d.len + 1] = XOR(@, bit)],
                      i + 1)
             ELSE inplace_correct_loop(nerr, errloc, d, e, rd, re, i + 1)

\* lines 644-648: the loop is over; the data is put back in the caller's bit
\* order unless the loop left through cleanup
inplace_done(args, d, e, nerr, res) ==
    /\ ret' = IF res.exc = NoError THEN Return("decode_inplace", args, nerr)
              ELSE Raise("decode_inplace", args, res.exc)
    /\ data' = [d EXCEPT !.buf = IF res.exc = NoError /\ self.reversed
                                 THEN reverse_bytes(res.data) ELSE res.data]
    /\ ecc' = [e EXCEPT !.buf = res.ecc]

\* lines 615-642: rd is the data after the reversal in place, res what
\* decode_bch returned and left in errloc
inplace_result(args, d, e, rd, res) ==
    IF res.err = -EINVAL
    THEN /\ ret' = Raise("decode_inplace", args,
                         ValueError("invalid parameters"))
         /\ data' = [d EXCEPT !.buf = rd]
         /\ ecc' = e
    ELSE IF res.err < 0 /\ res.err # -EBADMSG
    THEN /\ ret' = Raise("decode_inplace", args, SystemError)
         /\ data' = [d EXCEPT !.buf = rd]
         /\ ecc' = e
    ELSE inplace_done(args, d, e, old_decode_nerr(res.err),
             inplace_correct_loop(old_decode_nerr(res.err), res.errloc, d, e,
                                  rd, e.buf, 0))

inplace_store(args, d, e, rd, res) ==
    /\ inplace_result(args, d, e, rd, res)
    /\ syn' = res.syn

\* lines 611-613: the data as decode_bch gets it
inplace_data(obj, d) == IF obj.reversed THEN reverse_bytes(d.buf) ELSE d.buf

\* BCH_decode_inplace(data, ecc): returns nerr; the same text in
\* src/unnamed/part_003 (lines 286-361)
old_BCH_decode_inplace(d, e) ==
    /\ IF self.bch = NULL
       THEN /\ ret' \in Undefined("decode_inplace", [data |-> d, ecc |-> e])
            /\ data' = d
            /\ ecc' = e
            /\ UNCHANGED syn
       ELSE IF d.readonly
       THEN /\ ret' = Raise("decode_inplace", [data |-> d, ecc |-> e],
                            ValueError("data must not be readonly"))
            /\ data' = d
            /\ ecc' = e
            /\ UNCHANGED syn
       ELSE IF e.len # self.bch.ecc_bytes
       THEN /\ ret' = Raise("decode_inplace", [data |-> d, ecc |-> e],
                            ValueError("ecc length should be %d bytes"))
            /\ data' = d
            /\ ecc' = e
            /\ UNCHANGED syn
       ELSE inplace_store([data |-> d, ecc |-> e], d, e, inplace_data(self, d),
                bch_decode(self.bch, syn,
                           [d EXCEPT !.buf = inplace_data(self, d)], d.len,
                           e, NoBuffer, FALSE, Uninitialised(self.bch.t)))
    /\ pc' = After(pc, ret')
    /\ prev' = ret
    /\ UNCHANGED <<variant, self, sent, flips>>

\* line 697 (part_003 line 368): unsigned int syndromes[self->bch->t], the
\* number of elements the local array is declared with
syndromes_decl(obj) == obj.bch.t

\* lines 698-708: the number of elements the loop stores, at the indices
\* from 0 on, before it ends or PyLong_AsLong fails
syndromes_stored(obj, s) ==
    IF s.notint > 0 THEN s.notint - 1 ELSE 2 * obj.bch.t

\* lines 713-743: res is what decode_bch returned and left in errloc; the
\* tuple (nerr, corrected data)
syndromes_result(args, d, res) ==
    IF res.err = -EINVAL
    THEN Raise("decode_syndromes", args, ValueError("invalid parameters"))
    ELSE IF res.err < 0 /\ res.err # -EBADMSG
    THEN Raise("decode_syndromes", args, SystemError)
    ELSE LET nerr == old_decode_nerr(res.err)
             e    == Py_buffer(ZeroBytes(self.bch.ecc_bytes), FALSE)
             out  == old_correct_loop(nerr, res.errloc, d, e,
                                      IF self.reversed
                                      THEN reverse_bytes(d.buf) ELSE d.buf,
                                      e.buf, 0)
         IN  IF out.exc # NoError
             THEN Raise("decode_syndromes", args, out.exc)
             ELSE Return("decode_syndromes", args,
                         <<nerr,
                           IF self.reversed THEN reverse_bytes(out.data)
                           ELSE out.data>>)

\* BCH_decode_syndromes(data, syndromes): returns (nerr, corrected data); the
\* same text in src/unnamed/part_003 (lines 363-434). A store past the end
\* of the local array is undefined: the call faults, or it goes on with the
\* values where it wrote them
old_BCH_decode_syndromes(d, s) ==
    LET args == [data |-> d, syn |-> s]
    IN
    /\ IF self.bch = NULL
       THEN /\ ret' \in Undefined("decode_syndromes", args)
            /\ UNCHANGED syn
       ELSE IF Len(s.seq) # 2 * self.bch.t
       THEN /\ ret' = Raise("decode_syndromes", args,
                            ValueError("'syndromes' must have %d elements"))
            /\ UNCHANGED syn
       ELSE IF syndromes_stored(self, s) > syndromes_decl(self)
       THEN \/ /\ ret' = Raise("decode_syndromes", args, Fault)
               /\ UNCHANGED syn
            \/ /\ s.notint > 0
               /\ ret' = Raise("decode_syndromes", args,
                               TypeError("an integer is required"))
               /\ UNCHANGED syn
            \/ /\ s.notint = 0
               /\ LET res == bch_decode(self.bch, s.seq, d, d.len, NoBuffer,
                                        NoBuffer, TRUE,
                                        Uninitialised(self.bch.t))
                  IN  /\ ret' = syndromes_result(args, d, res)
                      /\ syn' = res.syn
       ELSE IF s.notint > 0
       THEN /\ ret' = Raise("decode_syndromes", args,
                            TypeError("an integer is required"))
            /\ UNCHANGED syn
       ELSE LET res == bch_decode(self.bch, s.seq, d, d.len, NoBuffer,
                                  NoBuffer, TRUE, Uninitialised(self.bch.t))
            IN  /\ ret' = syndromes_result(args, d, res)
                /\ syn' = res.syn
    /\ data' = d
    /\ ecc' = ecc
    /\ pc' = After(pc, ret')
    /\ prev' = ret
    /\ UNCHANGED <<variant, self, sent, flips>>

(***************************************************************************)
(* src/unnamed/part_003, the same module one revision on: decode hands      *)
(* decode_bch the copy it has reversed.                                     *)
(***************************************************************************)
\* lines 217-238: the copy of the data that decode_bch reads
p3_result_data(obj, d) == IF obj.reversed THEN reverse_bytes(d.buf) ELSE d.buf

\* BCH_decode(data, ecc): returns (nerr, corrected data, corrected ecc)
p3_BCH_decode(d, e) ==
    /\ IF self.bch = NULL
       THEN /\ ret' \in Undefined("decode", [data |-> d, ecc |-> e])
            /\ UNCHANGED syn
       ELSE IF e.len # self.bch.ecc_bytes
       THEN /\ ret' = Raise("decode", [data |-> d, ecc |-> e],
                            ValueError("ecc length should be %d bytes"))
            /\ UNCHANGED syn
       ELSE old_decode_store([data |-> d, ecc |-> e], d, e,
                bch_decode(self.bch, syn,
                           [d EXCEPT !.buf = p3_result_data(self, d)], d.len,
                           e, NoBuffer, FALSE, Uninitialised(self.bch.t)))
    /\ data' = d
    /\ ecc' = e
    /\ pc' = After(pc, ret')
    /\ prev' = ret
    /\ UNCHANGED <<variant, self, sent, flips>>

(***************************************************************************)
(* The client.                                                              *)
(***************************************************************************)
\* constructor arguments the client tries: <<t, prim_poly, m, swap_bits>>
InitArgs ==
    { <<2, 0, 5, FALSE>>, <<2, 37, -1, TRUE>>, <<1, 0, 5, FALSE>>,
      <<10, 0, -1, FALSE>>, <<2, 0, 4, FALSE>>, <<2, 33, -1, FALSE>> }

\* the messages the client sends: each length up to MaxDataLen, filled with
\* one of NumPatterns byte patterns
PatternByte(k, i) == (165 + 181 * k + 91 * (i - 1)) % 256
Msg(L, k) == Array([i \in 1..L |-> PatternByte(k, i)], L)
Messages == { Msg(L, k) : L \in 0..MaxDataLen, k \in 0..(NumPatterns - 1) }

\* the syndromes of a word with one bit flipped, and a sequence with an
\* element that is no element of the field
FieldSyn == <<4, 16, 10, 13>>
WildSyn(bch) == Array([i \in 1..(2 * bch.t) |-> IF i = 1 THEN 1000 ELSE 0],
                      2 * bch.t)

\* a message one byte longer than the longest that has a codeword
TooLong(bch) == Msg((bch.n - bch.ecc_bits) \div 8 + 1, 0)

\* bch = bchlib.BCH(...)
Construct ==
    \E a \in InitArgs :
        /\ pc = "new"
        /\ BCH_init(a[1], a[2], a[3], a[4])
        /\ UNCHANGED clients

\* ecc = bch.encode(data)
Encode ==
    \E M \in Messages :
        /\ pc = "ready"
        /\ BCH_encode(Py_buffer(M, FALSE), NoBuffer)
        /\ UNCHANGED clients

\* packet = data + ecc, sent and split again into two writable buffers
Transmit ==
    /\ pc = "encoded"
    /\ data' = Py_buffer(ret.args.data.buf, FALSE)
    /\ ecc' = Py_buffer(ret.val, FALSE)
    /\ sent' = [data |-> ret.args.data.buf, ecc |-> ret.val]
    /\ flips' = {}
    /\ pc' = "sent"
    /\ UNCHANGED <<variant, self, syn, ret, prev, clients>>

\* bit b of the block data + ecc: packet[b / 8] ^= 1 << (b % 8)
FlipBit(b) ==
    IF b \div 8 < data.len
    THEN /\ data' = FlipByte(data, b \div 8, 2 ^ (b % 8))
         /\ UNCHANGED ecc
    ELSE /\ ecc' = FlipByte(ecc, b \div 8 - data.len, 2 ^ (b % 8))
         /\ UNCHANGED data

\* the channel flips one more bit, up to one more than the code corrects
Flip ==
    \E b \in 0..(8 * (data.len + ecc.len) - 1) :
        /\ pc = "sent"
        /\ b \notin flips
        /\ Cardinality(flips) <= self.bch.t
        /\ FlipBit(b)
        /\ flips' = flips \cup {b}
        /\ UNCHANGED <<variant, self, syn, ret, prev, sent, pc, clients>>

\* nerr = bch.decode(data, ecc)
Decode ==
    /\ pc = "sent"
    /\ BCH_decode(data, ecc, NoBuffer, NoSyn)
    /\ UNCHANGED clients

\* bch.correct(data, ecc)
Correct ==
    /\ pc = "decoded"
    /\ BCH_correct(data, ecc)
    /\ UNCHANGED clients

\* bch.m, bch.errloc, ...
Read ==
    \E name \in Attributes :
        /\ pc \in {"new", "unconfigured", "ready"}
        /\ BCH_getattr(name)
        /\ UNCHANGED clients

\* calls on an object whose constructor failed or never ran
UseUnconfigured ==
    /\ pc \in {"new", "unconfigured"}
    /\ \E M \in Messages :
          \/ BCH_encode(Py_buffer(M, FALSE), NoBuffer)
          \/ BCH_decode(Py_buffer(M, FALSE), Py_buffer(<<0, 0>>, FALSE),
                        NoBuffer, NoSyn)
          \/ BCH_correct(Py_buffer(M, FALSE), Py_buffer(<<0, 0>>, FALSE))
          \/ BCH_compute_even_syn(M)
    /\ UNCHANGED clients

(***************************************************************************)
(* The same exchange on each revision of the binding.                       *)
(***************************************************************************)
Revisions == {"part_000", "src", "bchlib"}

\* the messages of the first pattern
PlainMessages == { Msg(L, 0) : L \in 0..MaxDataLen }

\* the ecc the last encode produced: returned (part_000, bchlib) or read
\* from the ecc attribute (src)
EccOf == IF variant = "src" THEN self.ecc ELSE ret.val

RevConstruct ==
    /\ pc = "new"
    /\ variant = "part_000"
    /\ BCH_init(2, 0, 5, FALSE)
    /\ UNCHANGED clients

RevEncode ==
    \E M \in PlainMessages :
        /\ pc = "ready"
        /\ variant = "part_000"
        /\ BCH_encode(Py_buffer(M, FALSE), NoBuffer)
        /\ UNCHANGED clients

RevDecode ==
    /\ pc = "sent"
    /\ variant = "part_000"
    /\ BCH_decode(data, ecc, NoBuffer, NoSyn)
    /\ UNCHANGED clients

RevCorrect ==
    /\ pc = "decoded"
    /\ variant = "part_000"
    /\ BCH_correct(data, ecc)
    /\ UNCHANGED clients

SrcConstruct ==
    /\ pc = "new"
    /\ variant = "src"
    /\ src_BCH_init(2, 0, 5, FALSE)
    /\ UNCHANGED clients

SrcEncode ==
    \E M \in PlainMessages :
        /\ pc = "ready"
        /\ variant = "src"
        /\ src_BCH_encode(Py_buffer(M, FALSE), NoBuffer)
        /\ UNCHANGED clients

SrcDecode ==
    /\ pc = "sent"
    /\ variant = "src"
    /\ src_BCH_decode(data, ecc, NoBuffer, NoSyn, 0)
    /\ UNCHANGED clients

SrcCorrect ==
    /\ pc = "decoded"
    /\ variant = "src"
    /\ src_BCH_correct(data, ecc)
    /\ UNCHANGED clients

OldConstruct ==
    \E rev \in BOOLEAN :
        /\ pc = "new"
        /\ variant = "bchlib"
        /\ old_BCH_init(37, 2, rev)
        /\ UNCHANGED clients

OldEncode ==
    \E M \in PlainMessages :
        /\ pc = "ready"
        /\ variant = "bchlib"
        /\ old_BCH_encode(Py_buffer(M, FALSE), NoBuffer)
        /\ UNCHANGED clients

\* decode corrects as well
OldDecode ==
    /\ pc = "sent"
    /\ variant = "bchlib"
    /\ old_BCH_decode(data, ecc)
    /\ UNCHANGED clients

\* packet = data + ecc on any revision
RevTransmit ==
    /\ pc = "encoded"
    /\ data' = Py_buffer(ret.args.data.buf, FALSE)
    /\ ecc' = Py_buffer(EccOf, FALSE)
    /\ sent' = [data |-> ret.args.data.buf, ecc |-> EccOf]
    /\ flips' = {}
    /\ pc' = "sent"
    /\ UNCHANGED <<variant, self, syn, ret, prev, clients>>

NoCall == ReturnNone("none", <<>>)

\* a new object of revision v, its constructor not yet run
NewCodec(v) ==
    /\ variant = v
    /\ self = NewObject
    /\ syn = <<>>
    /\ data = NoBuffer
    /\ ecc = NoBuffer
    /\ ret = NoCall
    /\ prev = NoCall
    /\ sent = [data |-> <<>>, ecc |-> <<>>]
    /\ flips = {}
    /\ pc = "new"
    /\ clients = <<>>

Init == NewCodec("part_000")

Next ==
    \/ Construct
    \/ Encode
    \/ Transmit
    \/ Flip
    \/ Decode
    \/ Correct
    \/ Read
    \/ UseUnconfigured

Spec == Init /\ [][Next]_vars

RevInit == \E v \in Revisions : NewCodec(v)

RevNext ==
    \/ RevConstruct
    \/ RevEncode
    \/ RevDecode
    \/ RevCorrect
    \/ SrcConstruct
    \/ SrcEncode
    \/ SrcDecode
    \/ SrcCorrect
    \/ OldConstruct
    \/ OldEncode
    \/ OldDecode
    \/ RevTransmit
    \/ Flip

SpecRevisions == RevInit /\ [][RevNext]_vars

(***************************************************************************)
(* Encoding alone: a client that encodes chunk after chunk, handing each   *)
(* call the ecc of the one before (part_000 and src/src/bchlib.c).         *)
(***************************************************************************)
EncodeRevisions == {"part_000", "src"}

\* constructor arguments of the codecs that encode
EncodeArgs == { <<2, 0, 5, FALSE>>, <<2, 37, -1, TRUE>>, <<1, 0, 5, FALSE>> }

\* the ecc arguments the client tries: none, or a bytes (read-only) or
\* bytearray object of any length up to one more than the longest message
StartEccs ==
    {NoBuffer}
    \cup { Py_buffer(b, ro) :
             b \in { Msg(L, k) : L \in 0..(MaxDataLen + 1),
                                 k \in 0..(NumPatterns - 1) }
                   \cup { ZeroBytes(L) : L \in 0..(MaxDataLen + 1) },
             ro \in BOOLEAN }

EncConstruct ==
    \E a \in EncodeArgs :
        /\ pc = "new"
        /\ variant = "part_000"
        /\ BCH_init(a[1], a[2], a[3], a[4])
        /\ UNCHANGED clients

EncSrcConstruct ==
    \E a \in EncodeArgs :
        /\ pc = "new"
        /\ variant = "src"
        /\ src_BCH_init(a[1], a[2], a[3], a[4])
        /\ UNCHANGED clients

\* ecc = bch.encode(data, ecc)
EncFirst ==
    \E M \in Messages, e \in StartEccs :
        /\ pc = "ready"
        /\ variant = "part_000"
        /\ BCH_encode(Py_buffer(M, TRUE), e)
        /\ UNCHANGED clients

EncSrcFirst ==
    \E M \in Messages, e \in StartEccs :
        /\ pc = "ready"
        /\ variant = "src"
        /\ src_BCH_encode(Py_buffer(M, TRUE), e)
        /\ UNCHANGED clients

\* ecc = bch.encode(more, ecc): the next chunk, starting from the ecc of the
\* chunk before
EncNext ==
    \E M \in Messages :
        /\ pc = "encoded"
        /\ variant = "part_000"
        /\ BCH_encode(Py_buffer(M, TRUE), Py_buffer(EccOf, TRUE))
        /\ UNCHANGED clients

EncSrcNext ==
    \E M \in Messages :
        /\ pc = "encoded"
        /\ variant = "src"
        /\ src_BCH_encode(Py_buffer(M, TRUE), Py_buffer(EccOf, TRUE))
        /\ UNCHANGED clients

EncodeInit == \E v \in EncodeRevisions : NewCodec(v)

EncodeNext ==
    \/ EncConstruct
    \/ EncSrcConstruct
    \/ EncFirst
    \/ EncSrcFirst
    \/ EncNext
    \/ EncSrcNext

SpecEncode == EncodeInit /\ [][EncodeNext]_vars

(***************************************************************************)
(* The even syndromes alone: a client that has odd syndromes from          *)
(* elsewhere and completes them, then completes the result again.          *)
(***************************************************************************)
\* what the client leaves in the even-numbered places
Placeholders == {0, 77}

\* the sequences passed: 2t values for t = 1 and for t = 2, the odd-numbered
\* ones elements of GF(2^5)
SynSeqs ==
    { <<a, x>> : a \in 0..(2 ^ min_m - 1), x \in Placeholders }
    \cup { <<a, x, b, y>> : a \in 0..(2 ^ min_m - 1), b \in 0..(2 ^ min_m - 1),
                            x \in Placeholders, y \in Placeholders }

SynConstruct ==
    \E a \in EncodeArgs :
        /\ pc = "new"
        /\ BCH_init(a[1], a[2], a[3], a[4])
        /\ UNCHANGED clients

\* syn = bch.compute_even_syn(syn)
EvenSyn ==
    \E s \in SynSeqs :
        /\ pc = "ready"
        /\ BCH_compute_even_syn(s)
        /\ UNCHANGED clients

\* syn = bch.compute_even_syn(syn), on the tuple just returned
EvenSynAgain ==
    /\ pc = "even"
    /\ BCH_compute_even_syn(ret.val)
    /\ UNCHANGED clients

EvenSynNext ==
    \/ SynConstruct
    \/ EvenSyn
    \/ EvenSynAgain

SpecEvenSyn == Init /\ [][EvenSynNext]_vars

(***************************************************************************)
(* The bit-order adapter alone: each byte value, reversed and reversed      *)
(* again.                                                                   *)
(***************************************************************************)
\* a buffer of one byte, any of the 256 values, and what it held at first
ReverseInit ==
    \E b \in 0..255 :
        /\ variant = "bchlib"
        /\ self = NewObject
        /\ syn = <<>>
        /\ data = Py_buffer(<<b>>, FALSE)
        /\ ecc = NoBuffer
        /\ ret = NoCall
        /\ prev = NoCall
        /\ sent = [data |-> <<b>>, ecc |-> <<>>]
        /\ flips = {}
        /\ pc = "new"
        /\ clients = <<>>

\* reverse_bytes(data.buf, data.buf, data.len)
ReverseInPlace(from, to) ==
    /\ pc = from
    /\ data' = [data EXCEPT !.buf = reverse_bytes(data.buf)]
    /\ pc' = to
    /\ UNCHANGED <<variant, self, syn, ecc, ret, prev, sent, flips, clients>>

ReverseOnce == ReverseInPlace("new", "reversed")

ReverseTwice == ReverseInPlace("reversed", "restored")

ReverseNext ==
    \/ ReverseOnce
    \/ ReverseTwice

SpecReverse == ReverseInit /\ [][ReverseNext]_vars

(***************************************************************************)
(* The two older revisions, src/bchlib/bchlib.c and src/unnamed/part_003:   *)
(* encode, then decode (which returns corrected copies) or decode_inplace   *)
(* (which corrects the caller's buffers), with and without reverse.         *)
(***************************************************************************)
OldRevisions == {"bchlib", "part_003"}

\* bch = bchlib.BCH(polynomial, t, reverse)
InplaceConstruct ==
    \E rev \in BOOLEAN :
        /\ pc = "new"
        /\ old_BCH_init(37, 2, rev)
        /\ UNCHANGED clients

\* ecc = bch.encode(data)
InplaceEncode ==
    \E M \in Messages :
        /\ pc = "ready"
        /\ old_BCH_encode(Py_buffer(M, FALSE), NoBuffer)
        /\ UNCHANGED clients

\* the channel flips one more bit, up to as many as the code corrects
FlipWithin ==
    \E b \in 0..(8 * (data.len + ecc.len) - 1) :
        /\ pc = "sent"
        /\ b \notin flips
        /\ Cardinality(flips) < self.bch.t
        /\ FlipBit(b)
        /\ flips' = flips \cup {b}
        /\ UNCHANGED <<variant, self, syn, ret, prev, sent, pc, clients>>

\* nerr, data, ecc = bch.decode(data, ecc), src/bchlib/bchlib.c
BchlibDecode ==
    /\ pc = "sent"
    /\ variant = "bchlib"
    /\ old_BCH_decode(data, ecc)
    /\ UNCHANGED clients

\* nerr, data, ecc = bch.decode(data, ecc), src/unnamed/part_003
P3Decode ==
    /\ pc = "sent"
    /\ variant = "part_003"
    /\ p3_BCH_decode(data, ecc)
    /\ UNCHANGED clients

\* nerr = bch.decode_inplace(data, ecc), each argument a bytearray or a
\* bytes object (read-only)
DecodeInplace ==
    \E rod \in BOOLEAN, roe \in BOOLEAN :
        /\ pc = "sent"
        /\ old_BCH_decode_inplace([data EXCEPT !.readonly = rod],
                                  [ecc EXCEPT !.readonly = roe])
        /\ UNCHANGED clients

\* nerr = bch.decode_inplace(data, ecc) on a bytearray one byte longer than
\* the code has room for
InplaceOversize ==
    /\ pc = "ready"
    /\ old_BCH_decode_inplace(
           Py_buffer(TooLong(self.bch), FALSE),
           Py_buffer(ZeroBytes(self.bch.ecc_bytes), TRUE))
    /\ UNCHANGED clients

\* the sequences the client passes as syndromes: 2t field elements, the
\* same with element k not an integer, and one element short
OldSyndromes ==
    { SynArg(FieldSyn), SynArg(ZeroBytes(Len(FieldSyn))),
      SynArg(Tail(FieldSyn)) }
    \cup { SynArgWith(FieldSyn, k) : k \in 1..Len(FieldSyn) }

\* nerr, data = bch.decode_syndromes(data, syndromes)
DecodeSyndromes ==
    \E s \in OldSyndromes :
        /\ pc = "sent"
        /\ old_BCH_decode_syndromes(data, s)
        /\ UNCHANGED clients

OldInit == \E v \in OldRevisions : NewCodec(v)

OldNext ==
    \/ InplaceConstruct
    \/ InplaceEncode
    \/ RevTransmit
    \/ FlipWithin
    \/ BchlibDecode
    \/ P3Decode
    \/ DecodeInplace
    \/ InplaceOversize
    \/ DecodeSyndromes

SpecOld == OldInit /\ [][OldNext]_vars

(***************************************************************************)
(* The calls of part_000 and of src/src/bchlib.c in the orders and with the *)
(* arguments a client may use: decode in each of its four input modes and   *)
(* with arguments it rejects, decode repeated, correct with other buffers   *)
(* than decode was given.                                                   *)
(***************************************************************************)
CallArgs == <<2, 0, 5, FALSE>>

\* what the object holds between calls, as the attributes show it
Stored(obj, s) ==
    [nerr |-> obj.nerr, errloc |-> obj.errloc, msg_len |-> obj.msg_len,
     syn |-> s]

\* what the client notes at a decode: what the object held before the call
\* and what its first decode left
FirstNote == [found |-> Stored(self', syn'), before |-> Stored(self, syn)]
NextNote == [clients EXCEPT !.before = Stored(self, syn)]

\* the ecc of the data as received, computed apart from the object
CalcEcc == bch_encode(self.bch, data.buf, ZeroBytes(self.bch.ecc_bytes))

\* the four ways of the decode docstring, for the word in data and ecc
DecodeCalls ==
    { [d |-> data, r |-> ecc, c |-> NoBuffer, s |-> NoSyn],
      [d |-> NoBuffer, r |-> ecc, c |-> Py_buffer(CalcEcc, TRUE),
       s |-> NoSyn],
      [d |-> NoBuffer, r |-> NoBuffer,
       c |-> Py_buffer(XorBytes(ecc.buf, CalcEcc), TRUE), s |-> NoSyn],
      [d |-> NoBuffer, r |-> NoBuffer, c |-> NoBuffer, s |-> SynArg(syn)] }

\* calls with an argument decode does not accept: an ecc one byte long or
\* one byte too long, a syn with an element missing, with one too many, or
\* with an element that is not an integer
BadDecodeCalls ==
    { [d |-> data, r |-> Py_buffer(ecc.buf \o <<0>>, FALSE), c |-> NoBuffer,
       s |-> NoSyn],
      [d |-> data, r |-> ecc, c |-> Py_buffer(<<0>>, TRUE), s |-> NoSyn],
      [d |-> NoBuffer, r |-> NoBuffer, c |-> NoBuffer,
       s |-> SynArg(syn \o <<0>>)],
      [d |-> NoBuffer, r |-> NoBuffer, c |-> NoBuffer,
       s |-> SynArg(Tail(syn))] }
    \cup { [d |-> NoBuffer, r |-> NoBuffer, c |-> NoBuffer,
            s |-> SynArgWith(ZeroBytes(2 * self.bch.t), k)] :
             k \in 1..(2 * self.bch.t) }

\* the buffers the client hands to correct: the ones decode was given, no
\* ecc, one of them read-only, the data without its last byte, or the ecc
\* without its last byte
CorrectArgs ==
    { <<data, ecc>>, <<data, NoBuffer>>,
      <<[data EXCEPT !.readonly = TRUE], ecc>>,
      <<data, [ecc EXCEPT !.readonly = TRUE]>> }
    \cup { <<Py_buffer(SubSeq(data.buf, 1, data.len - 1), FALSE), ecc>> :
             k \in 1..(IF data.len > 0 THEN 1 ELSE 0) }
    \cup { <<data, Py_buffer(SubSeq(ecc.buf, 1, ecc.len - 1), FALSE)>> :
             k \in 1..(IF ecc.len > 0 THEN 1 ELSE 0) }

CallConstruct ==
    /\ pc = "new"
    /\ variant = "part_000"
    /\ BCH_init(CallArgs[1], CallArgs[2], CallArgs[3], CallArgs[4])
    /\ UNCHANGED clients

CallSrcConstruct ==
    /\ pc = "new"
    /\ variant = "src"
    /\ src_BCH_init(CallArgs[1], CallArgs[2], CallArgs[3], CallArgs[4])
    /\ UNCHANGED clients

CallEncode ==
    \E M \in Messages :
        /\ pc = "ready"
        /\ variant = "part_000"
        /\ BCH_encode(Py_buffer(M, FALSE), NoBuffer)
        /\ UNCHANGED clients

CallSrcEncode ==
    \E M \in Messages :
        /\ pc = "ready"
        /\ variant = "src"
        /\ src_BCH_encode(Py_buffer(M, FALSE), NoBuffer)
        /\ UNCHANGED clients

\* bch.compute_even_syn(s), s of 0 to 2t + 1 elements
CallEvenSyn ==
    \E k \in 0..(2 * CallArgs[1] + 1) :
        /\ pc = "ready"
        /\ variant = "part_000"
        /\ BCH_compute_even_syn(SubSeq(<<3, 0, 5, 0, 7>>, 1, k))
        /\ UNCHANGED clients

\* nerr = bch.decode(data, ecc), the first call
FirstDecode ==
    /\ pc = "sent"
    /\ variant = "part_000"
    /\ BCH_decode(data, ecc, NoBuffer, NoSyn)
    /\ clients' = FirstNote

SrcFirstDecode ==
    /\ pc = "sent"
    /\ variant = "src"
    /\ src_BCH_decode(data, ecc, NoBuffer, NoSyn, 0)
    /\ clients' = FirstNote

\* a second decode call for the same word
DecodeAgain ==
    /\ pc = "decoded"
    /\ ret.exc = NoError
    /\ variant = "part_000"
    /\ \E call \in DecodeCalls \cup BadDecodeCalls :
          BCH_decode(call.d, call.r, call.c, call.s)
    /\ clients' = NextNote

SrcDecodeAgain ==
    /\ pc = "decoded"
    /\ ret.exc = NoError
    /\ variant = "src"
    /\ \E call \in DecodeCalls \cup BadDecodeCalls :
          src_BCH_decode(call.d, call.r, call.c, call.s, 0)
    /\ clients' = NextNote

\* bch.correct(data, ecc) after the first decode
CallCorrect ==
    \E a \in CorrectArgs :
        /\ pc = "decoded"
        /\ variant = "part_000"
        /\ BCH_correct(a[1], a[2])
        /\ UNCHANGED clients

SrcCallCorrect ==
    \E a \in CorrectArgs :
        /\ pc = "decoded"
        /\ variant = "src"
        /\ src_BCH_correct(a[1], a[2])
        /\ UNCHANGED clients

\* bch.correct(data, ecc) after the second decode
CorrectAfter ==
    /\ pc = "redecoded"
    /\ variant = "part_000"
    /\ BCH_correct(data, ecc)
    /\ UNCHANGED clients

SrcCorrectAfter ==
    /\ pc = "redecoded"
    /\ variant = "src"
    /\ src_BCH_correct(data, ecc)
    /\ UNCHANGED clients

CallsInit == \E v \in EncodeRevisions : NewCodec(v)

CallsNext ==
    \/ CallConstruct
    \/ CallSrcConstruct
    \/ CallEncode
    \/ CallSrcEncode
    \/ CallEvenSyn
    \/ RevTransmit
    \/ FlipWithin
    \/ FirstDecode
    \/ SrcFirstDecode
    \/ DecodeAgain
    \/ SrcDecodeAgain
    \/ CallCorrect
    \/ SrcCallCorrect
    \/ CorrectAfter
    \/ SrcCorrectAfter

SpecCalls == CallsInit /\ [][CallsNext]_vars

(***************************************************************************)
(* Two clients and one codec object of part_000.  Each client holds a word *)
(* of its own and calls decode and then correct on it; the four calls run  *)
(* in any order that keeps each client's decode before its correct.        *)
(***************************************************************************)
\* the mask of the bits lo .. lo + 7, from bit k on, that are in L
RECURSIVE FlipMask(_, _, _)
FlipMask(L, lo, k) ==
    IF k > 7 THEN 0
    ELSE (IF lo + k \in L THEN 2 ^ k ELSE 0) + FlipMask(L, lo, k + 1)

\* bytes with bit (b mod 8) of byte (b div 8 - base div 8) flipped for each
\* location b of L that falls in them; base is the location of their bit 0
Flipped(bytes, L, base) ==
    Array([i \in 1..Len(bytes) |->
              XOR(bytes[i], FlipMask(L, base + 8 * (i - 1), 0))],
          Len(bytes))

Clients == {"A", "B"}

\* the bits the channel may flip in a word with L bytes of data: none, one
\* bit of the data, one bit of the ecc, or one of each
SharedFlips(L) ==
    { {}, {8 * L + 1}, {0, 8 * L + 9} }
        \cup { {b} : b \in { x \in {0, 3} : x < 8 * L } }

\* the word a codec of this configuration makes of M, with the bits F
\* flipped on the way
Received(M, F) ==
    [data |-> Py_buffer(Flipped(M, F, 0), FALSE),
     ecc  |-> Py_buffer(Flipped(bch_encode(self.bch, M,
                                           ZeroBytes(self.bch.ecc_bytes)),
                                F, 8 * Len(M)), FALSE)]

\* what a client holds: its word as received, its buffers, how far it is,
\* and what its own decode returned and found
Holding(w) ==
    [word |-> w, data |-> w.data, ecc |-> w.ecc, at |-> "received",
     nerr |-> 0, found |-> {}]

\* bch = bchlib.BCH(2, m=5), the one object both clients use
SharedConstruct ==
    /\ pc = "new"
    /\ BCH_init(CallArgs[1], CallArgs[2], CallArgs[3], CallArgs[4])
    /\ UNCHANGED clients

\* each client receives a word
SharedReceive ==
    /\ pc = "ready"
    /\ clients = <<>>
    /\ \E MA \in Messages, MB \in Messages :
         \E FA \in SharedFlips(Len(MA)), FB \in SharedFlips(Len(MB)) :
            clients' = [c \in Clients |->
                           IF c = "A" THEN Holding(Received(MA, FA))
                           ELSE Holding(Received(MB, FB))]
    /\ UNCHANGED <<variant, self, syn, data, ecc, ret, prev, sent, flips,
                   pc>>

\* client c: nerr = bch.decode(data, ecc)
SharedDecode(c) ==
    /\ clients # <<>>
    /\ clients[c].at = "received"
    /\ BCH_decode(clients[c].data, clients[c].ecc, NoBuffer, NoSyn)
    /\ clients' = [clients EXCEPT
                      ![c].at = "decoded",
                      ![c].nerr = self'.nerr,
                      ![c].found = { self'.errloc[i] : i \in 1..self'.nerr }]

\* client c, whose decode found the word correctable:
\* bch.correct(data, ecc)
SharedCorrect(c) ==
    /\ clients # <<>>
    /\ clients[c].at = "decoded"
    /\ clients[c].nerr >= 0
    /\ BCH_correct(clients[c].data, clients[c].ecc)
    /\ clients' = [clients EXCEPT ![c].at = "corrected",
                                  ![c].data = data',
                                  ![c].ecc = ecc']

SharedNext ==
    \/ SharedConstruct
    \/ SharedReceive
    \/ \E c \in Clients : SharedDecode(c)
    \/ \E c \in Clients : SharedCorrect(c)

SpecShared == Init /\ [][SharedNext]_vars

(***************************************************************************)
(* The attributes after any sequence of calls, on part_000 and on          *)
(* src/src/bchlib.c: decode with words it accepts and rejects and with      *)
(* syndromes of the caller, compute_even_syn, and reads of errloc, syn and  *)
(* nerr in between.                                                         *)
(***************************************************************************)
\* the words decode is given: the longest message with no bit and with two
\* bits flipped, the empty message with t + 1 bits flipped, and a message
\* too long for the code
AttrWords ==
    { Received(Msg(MaxDataLen, 0), F) : F \in { {}, {0, 8 * MaxDataLen + 9} } }
        \cup { Received(Msg(0, 0), {1, 3, 9}),
               Received(TooLong(self.bch), {}) }

\* the syn arguments of decode: 2t elements of the field, 2t integers of
\* which one is not in the field, the same with a non-integer second
AttrSyns ==
    { SynArg(FieldSyn), SynArg(WildSyn(self.bch)),
      SynArgWith(WildSyn(self.bch), 2) }

\* the arguments of compute_even_syn: those of them that
\* bch_compute_even_syndromes can square or that never reach it, and a
\* sequence with an element missing
EvenSynArgs ==
    (AttrSyns \ {SynArg(WildSyn(self.bch))}) \cup {SynArg(Tail(FieldSyn))}

\* what the client notes at each call, r being its outcome: what the object
\* held before it; the count of the most recent decode that got as far as
\* decoding (0 when it found the word uncorrectable or failed); whether the
\* syndrome storage had been written in full by an earlier call, and whether
\* it has been now
Noted(r) ==
    [before |-> Stored(self, syn),
     count  |-> IF r.op = "decode" /\ r.exc = NoError
                THEN IF r.val >= 0 THEN r.val ELSE 0
                ELSE IF r.op = "decode"
                        /\ r.exc \in {ValueError("invalid parameters"), Fault}
                THEN 0
                ELSE IF clients = <<>> THEN 0 ELSE clients.count,
     wasknown |-> IF clients = <<>> THEN FALSE ELSE clients.known,
     known  |-> \/ r.op = "init" /\ variant = "part_000"
                \/ r.op \in {"decode", "compute_even_syn"}
                   /\ variant = "src" /\ r.exc = NoError
                \/ clients # <<>> /\ clients.known]

\* the object is configured and no call has killed the process
Alive == pc \notin {"new", "unconfigured"} /\ ret.exc # Fault

AttrConstruct ==
    /\ pc = "new"
    /\ variant = "part_000"
    /\ BCH_init(CallArgs[1], CallArgs[2], CallArgs[3], CallArgs[4])
    /\ clients' = Noted(ret')

AttrSrcConstruct ==
    /\ pc = "new"
    /\ variant = "src"
    /\ src_BCH_init(CallArgs[1], CallArgs[2], CallArgs[3], CallArgs[4])
    /\ clients' = Noted(ret')

\* nerr = bch.decode(data, recv_ecc)
AttrDecode ==
    /\ Alive
    /\ variant = "part_000"
    /\ \E w \in AttrWords : BCH_decode(w.data, w.ecc, NoBuffer, NoSyn)
    /\ clients' = Noted(ret')

AttrSrcDecode ==
    /\ Alive
    /\ variant = "src"
    /\ self.msg_len < MaxDataLen
    /\ \E w \in AttrWords : src_BCH_decode(w.data, w.ecc, NoBuffer, NoSyn, 0)
    /\ clients' = Noted(ret')

\* nerr = bch.decode(syn=S)
AttrDecodeSyn ==
    /\ Alive
    /\ variant = "part_000"
    /\ \E s \in AttrSyns : BCH_decode(NoBuffer, NoBuffer, NoBuffer, s)
    /\ clients' = Noted(ret')

AttrSrcDecodeSyn ==
    /\ Alive
    /\ variant = "src"
    /\ \E s \in AttrSyns : src_BCH_decode(NoBuffer, NoBuffer, NoBuffer, s, 0)
    /\ clients' = Noted(ret')

\* bch.compute_even_syn(S)
AttrEvenSyn ==
    /\ Alive
    /\ variant = "part_000"
    /\ \E s \in EvenSynArgs : s.notint = 0 /\ BCH_compute_even_syn(s.seq)
    /\ clients' = Noted(ret')

AttrSrcEvenSyn ==
    /\ Alive
    /\ variant = "src"
    /\ \E s \in EvenSynArgs : src_BCH_compute_even_syn(s)
    /\ clients' = Noted(ret')

\* bch.errloc, bch.syn
AttrRead ==
    /\ Alive
    /\ variant = "part_000"
    /\ \E name \in {"errloc", "syn"} : BCH_getattr(name)
    /\ clients' = Noted(ret')

\* bch.errloc, bch.syn, bch.nerr
AttrSrcRead ==
    /\ Alive
    /\ variant = "src"
    /\ \E name \in {"errloc", "syn", "nerr"} : src_BCH_getattr(name)
    /\ clients' = Noted(ret')

AttrNext ==
    \/ AttrConstruct
    \/ AttrSrcConstruct
    \/ AttrDecode
    \/ AttrSrcDecode
    \/ AttrDecodeSyn
    \/ AttrSrcDecodeSyn
    \/ AttrEvenSyn
    \/ AttrSrcEvenSyn
    \/ AttrRead
    \/ AttrSrcRead

SpecAttrs == CallsInit /\ [][AttrNext]_vars

(***************************************************************************)
(* The buffer views of part_000: encode, decode and correct in any order,  *)
(* with arguments they accept and arguments they reject, and the number of *)
(* views of the caller's buffers that are held when each call is over.     *)
(***************************************************************************)
\* the count is followed up to this many views
MaxHeld == 3

\* the buffer without its last byte
Shortened(b) == Py_buffer(SubSeq(b.buf, 1, b.len - 1), b.readonly)

\* decode with a word, with a recv_ecc one byte short, and with a word and
\* a syn that is accepted, one element short, or holds no integer
ViewDecodeCalls ==
    { [d |-> w.data, r |-> w.ecc, s |-> NoSyn] : w \in AttrWords }
    \cup { [d |-> w.data, r |-> Shortened(w.ecc), s |-> NoSyn] :
             w \in AttrWords }
    \cup { [d |-> NoBuffer, r |-> NoBuffer, s |-> x] :
             x \in {SynArg(FieldSyn), SynArg(Tail(FieldSyn)),
                    SynArgWith(FieldSyn, 2)} }

\* correct with the buffers of a word, with a bytes object as data, with no
\* ecc, and with an empty data buffer
ViewCorrectArgs ==
    UNION { { <<w.data, w.ecc>>, <<[w.data EXCEPT !.readonly = TRUE], w.ecc>>,
              <<w.data, NoBuffer>>, <<Py_buffer(<<>>, FALSE), w.ecc>> } :
            w \in AttrWords }

ViewConstruct ==
    /\ pc = "new"
    /\ BCH_init(CallArgs[1], CallArgs[2], CallArgs[3], CallArgs[4])
    /\ clients' = 0

\* ecc = bch.encode(data) and bch.encode(data, ecc), ecc of ecc_bytes or one
\* byte short
ViewEncode ==
    /\ Alive
    /\ clients < MaxHeld
    /\ \E M \in Messages :
         \E e \in {NoBuffer, Py_buffer(ZeroBytes(self.bch.ecc_bytes), FALSE),
                   Py_buffer(ZeroBytes(self.bch.ecc_bytes - 1), FALSE)} :
            BCH_encode(Py_buffer(M, FALSE), e)
    /\ clients' = clients + views_held(ret')

ViewDecode ==
    /\ Alive
    /\ clients < MaxHeld
    /\ \E call \in ViewDecodeCalls :
          BCH_decode(call.d, call.r, NoBuffer, call.s)
    /\ clients' = clients + views_held(ret')

ViewCorrect ==
    /\ Alive
    /\ clients < MaxHeld
    /\ \E a \in ViewCorrectArgs : BCH_correct(a[1], a[2])
    /\ clients' = clients + views_held(ret')

ViewsNext ==
    \/ ViewConstruct
    \/ ViewEncode
    \/ ViewDecode
    \/ ViewCorrect

SpecViews == NewCodec("part_000") /\ [][ViewsNext]_vars

(***************************************************************************)
(* The scenario of the contract on part_000: a codec with m = 13 and t = 4, *)
(* a message of 512 zero bytes, and up to two bits of the word flipped on   *)
(* the way.                                                                 *)
(***************************************************************************)
\* bchlib.BCH(4, m=13)
ScenarioArgs == <<4, 0, 13, FALSE>>
\* the message: 512 bytes, all zero
ScenarioData == ZeroBytes(512)
\* the bits the channel may flip: the two of the scenario, the first and
\* the last of the data, one more of the data and one of the ecc
ScenarioBits == {0, 37, 2048, 4001, 4095, 4100}
\* the two the scenario flips
ScenarioFlips == {37, 4001}

ScenConstruct ==
    /\ pc = "new"
    /\ BCH_init(ScenarioArgs[1], ScenarioArgs[2], ScenarioArgs[3],
                ScenarioArgs[4])
    /\ UNCHANGED clients

\* ecc = bch.encode(data)
ScenEncode ==
    /\ pc = "ready"
    /\ BCH_encode(Py_buffer(ScenarioData, FALSE), NoBuffer)
    /\ UNCHANGED clients

\* the channel flips one more bit, up to two
ScenFlip ==
    \E b \in ScenarioBits :
        /\ pc = "sent"
        /\ b \notin flips
        /\ Cardinality(flips) < Cardinality(ScenarioFlips)
        /\ FlipBit(b)
        /\ flips' = flips \cup {b}
        /\ UNCHANGED <<variant, self, syn, ret, prev, sent, pc, clients>>

\* nerr = bch.decode(data, ecc)
ScenDecode ==
    /\ pc = "sent"
    /\ BCH_decode(data, ecc, NoBuffer, NoSyn)
    /\ UNCHANGED clients

\* bch.correct(data, ecc)
ScenCorrect ==
    /\ pc = "decoded"
    /\ BCH_correct(data, ecc)
    /\ UNCHANGED clients

\* bch.errloc, bch.syn after the decode
ScenRead ==
    /\ pc = "decoded"
    /\ \E name \in {"errloc", "syn"} : BCH_getattr(name)
    /\ UNCHANGED clients

ScenarioNext ==
    \/ ScenConstruct
    \/ ScenEncode
    \/ RevTransmit
    \/ ScenFlip
    \/ ScenDecode
    \/ ScenCorrect
    \/ ScenRead

SpecScenario == NewCodec("part_000") /\ [][ScenarioNext]_vars

(***************************************************************************)
(* Properties.                                                             *)
(***************************************************************************)
\* a message of len bytes has a codeword: 8*len + ecc_bits <= n
Fits(bch, len) == 8 * len <= bch.n - bch.ecc_bits

\* the bits of the block data + ecc that belong to the codeword: the 8*len
\* data bits and the ecc_bits parity bits, by their index in the block (the
\* other bits of the last ecc byte are padding)
CodewordBits(bch, len) ==
    { LocOfRoot(bch, 8 * len + bch.ecc_bits, raw) :
        raw \in 0..(8 * len + bch.ecc_bits - 1) }

\* the client's buffers hold the word that was sent
Restored == data.buf = sent.data /\ ecc.buf = sent.ecc

\* the locations the last decode reported (the errloc attribute)
Located == { self.errloc[i] : i \in 1..self.nerr }

\* the channel flipped at most t bits, all of them bits of the codeword
WithinStrength ==
    /\ Fits(self.bch, Len(sent.data))
    /\ Cardinality(flips) <= self.bch.t
    /\ flips \subseteq CodewordBits(self.bch, Len(sent.data))

\* C1, as amended: for every message that fits the code and every set of 0..t
\* flipped bits among the data bits and the ecc_bits parity bits of the word,
\* decode reports the number of flips and their locations, and correct on the
\* same buffers restores the word exactly.
RoundTrip ==
    /\ (pc = "decoded" /\ WithinStrength)
          => /\ ret.exc = NoError
             /\ ret.val = Cardinality(flips)
             /\ Located = flips
    /\ (pc = "corrected" /\ WithinStrength)
          => /\ ret.exc = NoError
             /\ Restored

\* C1, as stated: any 0..t flipped bits of the bytes data + ecc are restored
RoundTripAnyBit ==
    (/\ pc = "corrected"
     /\ Fits(self.bch, Len(sent.data))
     /\ Cardinality(flips) <= self.bch.t)
        => Restored

RoundTripWitness ==
    /\ pc = "corrected"
    /\ WithinStrength
    /\ self.bch.t = 2
    /\ Cardinality(flips) = 2
    /\ \E b \in flips : b < 8 * Len(sent.data)
    /\ \E b \in flips : b >= 8 * Len(sent.data)
    /\ Restored

OneTooMany ==
    /\ pc = "decoded"
    /\ Fits(self.bch, Len(sent.data))
    /\ Cardinality(flips) = self.bch.t + 1
    /\ flips \subseteq CodewordBits(self.bch, Len(sent.data))

\* C3, as amended: with t+1 bits of the codeword flipped, decode reports
\* either failure (-1) or exactly t errors (the word then lies t bits from
\* another codeword); it never reports fewer than t.
TooManyFlips ==
    OneTooMany => /\ ret.exc = NoError
                  /\ ret.val = -1 \/ ret.val = self.bch.t

\* C3, as stated: t+1 flipped bits always give a negative count
TooManyFlipsDetected ==
    (/\ pc = "decoded"
     /\ Fits(self.bch, Len(sent.data))
     /\ Cardinality(flips) = self.bch.t + 1)
        => /\ ret.exc = NoError
           /\ ret.val < 0

TooManyFlipsWitness ==
    /\ OneTooMany
    /\ ret.exc = NoError
    /\ ret.val = -1

\* the decode before the last call reported failure
DecodeFailed ==
    /\ prev.op = "decode"
    /\ prev.exc # NoError \/ prev.val < 0

EvenSyndromes ==
    (ret.op = "compute_even_syn" /\ Len(ret.args.syn) = 2 * self.bch.t)
        => /\ ret.exc = NoError
           /\ Len(ret.val) = 2 * self.bch.t
           /\ \A i \in 1..(2 * self.bch.t) :
                 i % 2 = 1 => ret.val[i] = ret.args.syn[i]
           /\ \A i \in 1..self.bch.t :
                 /\ InField(self.bch, ret.val[i])
                 /\ ret.val[2 * i] = gf_sqr(self.bch, ret.val[i])
           /\ pc = "even_again" => ret.val = ret.args.syn

EvenSyndromesWitness ==
    /\ pc = "even_again"
    /\ self.bch.t = 2
    /\ prev.args.syn[2] = 77
    /\ prev.args.syn[1] > 1
    /\ ret.val # prev.args.syn
    /\ ret.val = prev.val

\* C6: a constructor call with no m and a polynomial of 0 fails with the
\* invalid-parameters error ("'m' and/or 'poly' must be provided"), and the
\* object is left without a field and a generator.
MissingFieldRejected ==
    (ret.op = "init" /\ ret.args[2] = 0 /\ ret.args[3] = -1)
        => /\ ret.exc = ValueError("'m' and/or 'poly' must be provided")
           /\ InvalidParameters(ret)
           /\ self.bch = NULL
           /\ pc = "unconfigured"

MissingFieldRejectedWitness ==
    /\ ret.op = "init"
    /\ ret.args = <<10, 0, -1, FALSE>>
    /\ pc = "unconfigured"

\* C7, as stated: every call on an object without a field and a generator is
\* rejected with the invalid-parameters error
UnconfiguredRejects == pc = "misused" => InvalidParameters(ret)

\* the last call was encode with an ecc argument of the wrong length
WrongEccLength ==
    /\ ret.op = "encode"
    /\ ~ret.args.ecc.isnull
    /\ ret.args.ecc.len # self.bch.ecc_bytes

EncodeLeavesBuffers ==
    ret.op = "encode" => /\ data = ret.args.data
                         /\ ecc = ret.args.ecc

\* the parity a call started from
StartOf(call) ==
    IF call.args.ecc.isnull THEN ZeroBytes(self.bch.ecc_bytes)
    ELSE call.args.ecc.buf

\* C10: encoding B from the ecc of A gives the ecc of A followed by B, and
\* encoding without a starting ecc gives what an all-zero one gives.
StreamingEncode ==
    /\ pc = "chained"
          => /\ ret.exc = NoError
             /\ EccOf = bch_encode(self.bch,
                                   prev.args.data.buf \o ret.args.data.buf,
                                   StartOf(prev))
    /\ (pc = "encoded" /\ ret.args.ecc.isnull)
          => EccOf = bch_encode(self.bch, ret.args.data.buf,
                                ZeroBytes(self.bch.ecc_bytes))

StreamingEncodeWitness ==
    /\ pc = "chained"
    /\ prev.args.ecc.isnull
    /\ Len(prev.args.data.buf) = MaxDataLen
    /\ Len(ret.args.data.buf) = MaxDataLen
    /\ EccOf # prev.args.data.buf
    /\ EccOf # ZeroBytes(self.bch.ecc_bytes)

\* C14: for every byte value b, reverse_bytes gives
\* ((b * 0x0202020202) AND 0x010884422010) mod 1023, which is b with bit i
\* moved to bit 7 - i; the product fits in 64 bits (four limbs of 16), and
\* reversing twice gives b back.
BitOrderAdapter ==
    /\ pc = "reversed"
          => /\ data.buf = <<reverse_byte(sent.data[1])>>
             /\ data.buf = <<BitRev8(sent.data[1])>>
             /\ \A i \in 0..7 : Bit(data.buf[1], 7 - i) = Bit(sent.data[1], i)
             /\ Len(mul_limbs(<<514, 514, 2>>, sent.data[1], 0)) <= 4
    /\ pc = "restored" => data.buf = sent.data

BitOrderAdapterWitness ==
    /\ pc = "reversed"
    /\ sent.data = <<29>>
    /\ data.buf = <<184>>

\* the call was rejected for a read-only buffer
ReadOnlyViolation(r) ==
    \/ r.exc = ValueError("data cannot be readonly")
    \/ r.exc = ValueError("ecc cannot be readonly")
    \/ r.exc = ValueError("data must not be readonly")
    \/ r.exc = ValueError("ecc must not be readonly")

\* C13, as stated: a correcting call (correct, decode_inplace) given a
\* read-only data buffer or a read-only ecc buffer fails with the
\* invalid-argument error and leaves both buffers as they were
ReadOnlyRejected ==
    (/\ ret.op \in {"correct", "decode_inplace"}
     /\ pc \in {"decoded", "corrected"}
     /\ ret.args.data.readonly \/ ret.args.ecc.readonly)
        => /\ ReadOnlyViolation(ret)
           /\ data = ret.args.data
           /\ ecc = ret.args.ecc

\* C15, as stated: on the older revisions, decoding the word encode produced
\* reports 0 errors and returns the message unchanged, with reverse as
\* without it
BitOrderConsistent ==
    (/\ variant \in OldRevisions
     /\ pc = "decoded"
     /\ ret.op = "decode"
     /\ flips = {}
     /\ Fits(self.bch, Len(sent.data)))
        => /\ ret.exc = NoError
           /\ ret.val[1] = 0
           /\ ret.val[2] = sent.data
           /\ ret.val[3] = sent.ecc

\* the last two calls were a decode that found locations and a correct with
\* writable buffers
DecodedThenCorrected ==
    /\ pc = "corrected"
    /\ ret.op = "correct"
    /\ prev.op = "decode"
    /\ prev.exc = NoError
    /\ prev.val >= 0
    /\ ~ret.args.data.readonly
    /\ ~ret.args.ecc.readonly

\* the end of the block correct was given: 8 * (len(data) + ecc_bytes)
BlockBits == 8 * (ret.args.data.len + self.bch.ecc_bytes)

\* C11, as stated: after a decode that found the locations L, correct flips
\* bit (b mod 8) of data[b div 8] for the locations below 8*len(data), bit
\* (b mod 8) of ecc[b div 8 - len(data)] for those from there to the end of
\* the block when an ecc buffer is supplied, and no other bit; without an
\* ecc buffer the ecc locations change nothing and raise no error.
CorrectEffect ==
    (DecodedThenCorrected /\ \A b \in Located : b < BlockBits)
        => /\ ret.exc = NoError
           /\ data.buf = Flipped(ret.args.data.buf, Located, 0)
           /\ ecc.buf = Flipped(ret.args.ecc.buf, Located,
                                8 * ret.args.data.len)

\* C12, as stated: when a stored location lies at or beyond the end of the
\* block correct is given (its data followed by ecc_bytes of ecc), correct
\* fails with the out-of-range error.
OutOfRangeRejected ==
    (DecodedThenCorrected /\ \E b \in Located : b >= BlockBits)
        => ret.exc = IndexError("uncorrectable error")

\* the last call was a decode with a recv_ecc or calc_ecc that is not
\* ecc_bytes long or a syn that does not have 2t elements
WrongLengthDecode ==
    /\ pc = "redecoded"
    /\ \/ ~ret.args.ecc.isnull /\ ret.args.ecc.len # self.bch.ecc_bytes
       \/ ~ret.args.calc_ecc.isnull
            /\ ret.args.calc_ecc.len # self.bch.ecc_bytes
       \/ ~ret.args.syn.isnull /\ Len(ret.args.syn.seq) # 2 * self.bch.t

\* C16: decode given a syn that does not have exactly 2t elements, or a
\* recv_ecc or calc_ecc that is not ecc_bytes long, and compute_even_syn
\* given a sequence that does not have 2t elements, fail with the
\* invalid-argument error; nothing is decoded: the stored syndromes, error
\* count and error locations stay as they were.
WrongLengthRejected ==
    /\ WrongLengthDecode
          => /\ InvalidArgument(ret)
             /\ ret.none
             /\ self.nerr = clients.before.nerr
             /\ self.errloc = clients.before.errloc
             /\ syn = clients.before.syn
    /\ (ret.op = "compute_even_syn"
        /\ Len(ret.args.syn) # 2 * self.bch.t)
          => /\ ret.exc = ValueError("'syn' must have %d elements")
             /\ ret.none

WrongLengthRejectedWitness ==
    /\ WrongLengthDecode
    /\ variant = "part_000"
    /\ Len(ret.args.syn.seq) = 2 * self.bch.t + 1
    /\ InvalidArgument(ret)
    /\ clients.before.nerr = 2

\* the last call was a decode in one of the other three input modes, for
\* the word the first decode was given as data and recv_ecc
OtherMode ==
    /\ pc = "redecoded"
    /\ ret.args.data.isnull
    /\ prev.op = "decode"
    /\ \/ /\ ret.args.ecc = prev.args.ecc
          /\ ~ret.args.calc_ecc.isnull
          /\ ret.args.calc_ecc.len = self.bch.ecc_bytes
       \/ /\ ret.args.ecc.isnull
          /\ ~ret.args.calc_ecc.isnull
          /\ ret.args.calc_ecc.len = self.bch.ecc_bytes
       \/ ret.args.syn = SynArg(clients.found.syn)

\* C17, as stated: decode(recv_ecc, calc_ecc), decode(calc_ecc = recv_ecc XOR
\* calc_ecc) and decode(syn) give the error count and the error locations
\* that decode(data, recv_ecc) gave.
ModesAgree ==
    OtherMode
        => /\ ret.exc = NoError
           /\ ret.val = prev.val
           /\ self.nerr = clients.found.nerr
           /\ Located = { clients.found.errloc[i] :
                            i \in 1..clients.found.nerr }

\* what a codec of this configuration finds for the word d, r: the count
\* and the locations
Finds(d, r) ==
    bch_decode(self.bch, ZeroBytes(2 * self.bch.t), d, d.len, r, NoBuffer,
               FALSE, ZeroBytes(self.bch.t))

FoundIn(res) == { res.errloc[i] : i \in 1..res.err }

\* C18, as stated: in src/src/bchlib.c the count decode(data, recv_ecc)
\* returns and the bits the correct(data, ecc) after it flips are those the
\* arguments and the configuration determine, whatever was decoded before.
CallsStateless ==
    (/\ variant = "src"
     /\ DecodedThenCorrected
     /\ prev.args.calc_ecc.isnull
     /\ prev.args.syn.isnull
     /\ ret.args.data = prev.args.data
     /\ ret.args.ecc = prev.args.ecc)
        => /\ prev.val = Finds(prev.args.data, prev.args.ecc).err
           /\ ret.exc = NoError
           /\ data.buf = Flipped(ret.args.data.buf,
                                 FoundIn(Finds(prev.args.data, prev.args.ecc)),
                                 0)
           /\ ecc.buf = Flipped(ret.args.ecc.buf,
                                FoundIn(Finds(prev.args.data, prev.args.ecc)),
                                8 * ret.args.data.len)

\* the last call was a decode rejected for its arguments: an ecc of the
\* wrong length, a syn of the wrong length or with an element that is not
\* an integer
RejectedDecode ==
    /\ pc = "redecoded"
    /\ \/ WrongLengthDecode
       \/ ret.args.syn.notint > 0

\* C20, as stated: a rejected decode leaves the stored syndromes, error
\* locations, error count and msg_len as they were before the call.
RejectedLeavesState ==
    RejectedDecode
        => /\ ret.exc # NoError
           /\ Stored(self, syn) = clients.before

\* C19, as stated: when two clients share one codec object and each calls
\* decode and then correct on its own buffers, each correct flips exactly
\* the locations the same client's decode found, whatever the order of the
\* four calls.
OwnLocationsCorrected ==
    \A c \in DOMAIN clients :
        clients[c].at = "corrected"
            => /\ clients[c].data.buf =
                      Flipped(clients[c].word.data.buf, clients[c].found, 0)
               /\ clients[c].ecc.buf =
                      Flipped(clients[c].word.ecc.buf, clients[c].found,
                              8 * clients[c].word.data.len)

\* the last call read the attribute name of a configured object
ReadOf(name) ==
    /\ pc = "read"
    /\ ret.op = "getattr"
    /\ ret.exc = NoError
    /\ ret.args = name

\* C21, as stated: the errloc attribute is a tuple with every slot set, as
\* long as the error count of the most recent decode (0 if it failed or
\* none has run) and no longer than t, and its entries are bit indices.
ErrlocMatchesCount ==
    ReadOf("errloc")
        => IF variant = "src"
           THEN /\ Len(ret.val.items) = ret.val.size
                /\ ret.val.size = clients.count
                /\ ret.val.size <= self.bch.t
           ELSE /\ Len(ret.val) = clients.count
                /\ Len(ret.val) <= self.bch.t
                /\ \A i \in 1..Len(ret.val) : ret.val[i] \in Nat

\* C22, as stated: on part_000 the syn attribute is a tuple of 2t integers,
\* each of them in 0..n, also after decode(syn=S).
SynInField ==
    (ReadOf("syn") /\ variant = "part_000")
        => /\ Len(ret.val) = 2 * self.bch.t
           /\ \A i \in 1..Len(ret.val) : ret.val[i] \in 0..self.bch.n

\* C23, as stated: compute_even_syn(S), whether it returns or raises,
\* leaves the syn attribute, errloc, nerr and the configuration as they
\* were before the call.
EvenSynPure ==
    (/\ ret.op = "compute_even_syn"
     /\ pc \in {"even", "even_again", "rejected"}
     /\ clients # <<>>
     /\ clients.wasknown)
        => /\ Stored(self, syn) = clients.before
           /\ self.bch # NULL

\* C30, as stated: in src/src/bchlib.c the nerr attribute is -1 or an
\* integer in 0..t after any sequence of calls, a decode that raised the
\* invalid-parameters error included.
NerrWellFormed ==
    (ReadOf("nerr") /\ variant = "src")
        => ret.val \in ({-1} \cup 0..self.bch.t)

\* C25, as stated: when correct fails with the out-of-range error, no bit of
\* the data buffer or of the ecc buffer has been flipped by that call, also
\* when locations earlier in the list were in range.
CorrectAtomic ==
    (pc = "corrected" /\ ret.op = "correct"
     /\ ret.exc = IndexError("uncorrectable error"))
        => /\ data.buf = ret.args.data.buf
           /\ ecc.buf = ret.args.ecc.buf

\* C26, as stated: in every correct(data, ecc) that follows decode calls,
\* whatever the lengths of the two buffers, each byte written lies inside
\* the buffer it is written to: no call writes data[k] with k >= len(data)
\* or ecc[k] with k >= len(ecc).
CorrectInBounds ==
    (pc = "corrected" /\ ret.op = "correct") => ret.exc # Fault

\* bit k of the byte sequence b, bit 0 the least significant of b[1]
BitOf(b, k) == (b[k \div 8 + 1] \div 2 ^ (k % 8)) % 2

\* the bit positions in which two byte sequences of one length differ
BitsChanged(a, b) == { k \in 0..(8 * Len(a) - 1) : BitOf(a, k) # BitOf(b, k) }

\* the last call was a decode_inplace with reverse on whose arguments passed
\* the tests of lines 598-609
InplaceReversed ==
    /\ pc = "decoded"
    /\ ret.op = "decode_inplace"
    /\ self.bch # NULL
    /\ self.reversed
    /\ ~ret.args.data.readonly
    /\ ret.args.ecc.len = self.bch.ecc_bytes

\* C28, as stated: with reverse on, decode_inplace leaves the caller's data
\* buffer in the caller's bit order on every return path after the argument
\* tests: equal to the input when the call raises or returns -1, and equal
\* to it but for the bits corrected, as many as it returns at most,
\* otherwise.
InplaceOrderRestored ==
    InplaceReversed
        => IF ret.exc # NoError \/ ret.val < 0
           THEN data.buf = ret.args.data.buf
           ELSE Cardinality(BitsChanged(data.buf, ret.args.data.buf))
                    <= ret.val

\* the last call was a decode_syndromes whose arguments passed the tests of
\* lines 675-687 and reached the loop that stores the syndromes
SyndromesCopied ==
    /\ pc = "decoded"
    /\ ret.op = "decode_syndromes"
    /\ self.bch # NULL
    /\ Len(ret.args.syn.seq) = 2 * self.bch.t

\* C27, as stated: where the caller's syndromes are copied into a local
\* array, every value is stored at an index below the number of elements
\* the array is declared with.
SyndromesFit ==
    SyndromesCopied
        => \A i \in 0..(syndromes_stored(self, ret.args.syn) - 1) :
               i < syndromes_decl(self)

\* C29, as stated: when encode, decode or correct has returned, by any of
\* its paths, every view of a caller's buffer it acquired has been released:
\* no view is held after any sequence of calls.
ViewsReleased == Alive => clients = 0

\* C24: with m = 13 and t = 4, encode of 512 zero bytes returns ecc_bytes
\* zero bytes; with bits 37 and 4001 of the block data + ecc flipped, decode
\* returns 2 and the locations are 37 and 4001; correct then leaves data and
\* ecc all zero again.
ScenarioHolds ==
    /\ (pc = "encoded" /\ ret.op = "encode")
          => /\ ret.exc = NoError
             /\ ret.val = ZeroBytes(self.bch.ecc_bytes)
    /\ (pc = "decoded" /\ flips = ScenarioFlips)
          => /\ ret.exc = NoError
             /\ ret.val = Cardinality(ScenarioFlips)
             /\ Located = ScenarioFlips
    /\ (pc = "corrected" /\ flips = ScenarioFlips)
          => /\ ret.exc = NoError
             /\ data.buf = ScenarioData
             /\ ecc.buf = ZeroBytes(self.bch.ecc_bytes)

ScenarioHoldsWitness ==
    /\ pc = "corrected"
    /\ flips = ScenarioFlips
    /\ self.bch.m = ScenarioArgs[3]
    /\ self.bch.t = ScenarioArgs[1]
    /\ Len(sent.data) = Len(ScenarioData)
    /\ prev.op = "decode"
    /\ prev.val = Cardinality(ScenarioFlips)
    /\ data.buf = ScenarioData
====
